---- MODULE Spec2Model ----
(***************************************************************************)
(* A model of the backup target of deno-ddb: the object store files.db     *)
(* (hash-filesystem-v5 behind backup-filesystem), the instance logs        *)
(* (backup-log), the source walker (backup-source), the backup set and the *)
(* target operations backup / complete / clean / fsck / verify / restore.  *)
(*                                                                         *)
(* One JavaScript process at a time works on the target.  Its position is  *)
(* pc; every await of the code is a step.  Appends to the open log are     *)
(* tasks (a seek followed by a write, FsFile.append); a task the code does *)
(* not await runs on while the walker continues.                           *)
(***************************************************************************)
EXTENDS Integers, Sequences, FiniteSets, TLC

\* ------------------------------------------------------------------ bounds
MaxRuns == 2        \* backup runs started
MaxMods == 1        \* modifications of source files
MaxCrashes == 1     \* processes cancelled
MaxMaint == 1       \* clean / fsck / verify / restore operations started

\* ------------------------------------------------------------ source trees
\* Absolute paths are sequences of names; a source root is a 1-element path.
\* The variable `sources` holds the roots of the backup set's sources.

FilePaths ==
  { <<"s1", "a">>, <<"s1", "d", "b">>, <<"s2", "c">>,
    <<"s3", "skip", "f">>, <<"s3", "skip", "keep", "x">>, <<"s3", "t">> }

\* The size of the file of content "big": the smallest size that `|0` does
\* not leave as it is (2^31 bytes), in the units of Int32Units below.
BigSize == 8

\* The file contents a source file can have, and the size of each.
Contents == { "x", "y", "zz" }

ByteLength(c) == IF c = "zz" THEN 2 ELSE IF c = "big" THEN BigSize ELSE 1

\* The contents each source file takes in turn: s1/a is rewritten in place with
\* the same length, the others grow.
Rewrites(f) == IF f = <<"s1", "a">> THEN { "x", "y" } ELSE { "y", "zz" }

\* Deno.readDir of a source directory, in the order the OS returns it.
ReadDir(dir) ==
  IF dir = <<"s1">> THEN << [name |-> "a", isFile |-> TRUE],
                            [name |-> "d", isFile |-> FALSE] >>
  ELSE IF dir = <<"s1", "d">> THEN << [name |-> "b", isFile |-> TRUE] >>
  ELSE IF dir = <<"s2">> THEN << [name |-> "c", isFile |-> TRUE] >>
  ELSE IF dir = <<"s3">> THEN << [name |-> "skip", isFile |-> FALSE],
                                 [name |-> "t", isFile |-> TRUE] >>
  ELSE IF dir = <<"s3", "skip">> THEN << [name |-> "f", isFile |-> TRUE],
                                         [name |-> "keep", isFile |-> FALSE] >>
  ELSE IF dir = <<"s3", "skip", "keep">> THEN << [name |-> "x", isFile |-> TRUE] >>
  ELSE << >>

\* path.join(dirname, entry.name)
Join(dir, name) == Append(dir, name)

\* Deno.lstat(fn).mode of the source's directories and files: 0o755 for a
\* directory, 0o600 for s1/d/b, 0o644 for every other file
Mode(fn) ==
  IF ReadDir(fn) # << >> THEN 493
  ELSE IF fn = <<"s1", "d", "b">> THEN 384
  ELSE 420

\* fn.substr(this.src.length + 1): the path relative to the source root
RelPath(fn) == SubSeq(fn, 2, Len(fn))

\* The characters of a relative path, as Filter.ignores gets them: the names
\* with '/' between them.  A name of the tree counts as one character; no name
\* of the tree is the beginning of another.
RECURSIVE PathChars(_)
PathChars(rel) ==
  IF Len(rel) <= 1 THEN rel
  ELSE << Head(rel), "/" >> \o PathChars(Tail(rel))

\* ----------------------------------------------------------------- hashing
\* SHA-256 of a content, hex: injective on the contents of the model.
Sha256(c) == <<"sha", c>>

\* fflate.Gzip of a whole content, and what is on disk when the writer
\* stopped before the last chunk.
Gzip(c) == <<"gz", c>>

Truncated == <<"gz-cut">>

\* fflate.Gunzip accepts only a complete stream.
GunzipOk(blob) == blob # Truncated

Gunzip(blob) == blob[2]

\* File sizes are counted in units of 2^28 bytes, so that 2^32 bytes, where
\* JavaScript's `|0` wraps, is a number the model checker can hold.
Int32Units == 16

\* the `|0` of entryToString and parse: ToInt32
ToInt32(n) ==
  LET m == n % Int32Units
  IN  IF 2 * m >= Int32Units THEN m - Int32Units ELSE m

\* ------------------------------------------------------------ files.db keys
\* hash.substr(0,2) / hash.substr(2,2): the two directory levels of a hash.
HashDir1(hash) == IF hash = Sha256("zz") THEN "d1b" ELSE "d1a"

HashDir2(hash) == IF hash = Sha256("y") THEN "d2b" ELSE "d2a"

\* HashFileSystemV5.getKey: the path below files.db, <hh>/<hh>/<hash>.<size>
KeyName(hash, size) == <<hash, size>>

GetKey(hash, size) == << HashDir1(hash), HashDir2(hash), KeyName(hash, size) >>

\* HashFileSystemV5.keyFromFile(dir, name)
KeyFromFile(dir, name) == name

\* ---------------------------------------------------------------- log lines
Line(type, mode, path, size, hash, mtime) ==
  [type |-> type, mode |-> mode, path |-> path, size |-> size, hash |-> hash,
   mtime |-> mtime]

\* the hash column of a line that has no hash: '-'
NoHash == <<"-">>

HeaderLine == Line("HEADER", <<>>, <<>>, 0, NoHash, 0)

SourceLine(root) == Line("SOURCE", <<>>, root, 0, NoHash, 0)

StatusLine == Line("STATUS", <<>>, <<"OK">>, 0, NoHash, 0)

\* mode.toString(8): the octal digits of a mode
RECURSIVE ToString8(_)
ToString8(n) == IF n < 8 THEN << n >> ELSE Append(ToString8(n \div 8), n % 8)

\* parseInt(entry.mode, 8)
RECURSIVE ParseInt8(_)
ParseInt8(digits) ==
  IF Len(digits) = 1 THEN digits[1]
  ELSE 8 * ParseInt8(SubSeq(digits, 1, Len(digits) - 1)) + digits[Len(digits)]

\* BackupLog.entryToString of a D or F entry
EntryToString(type, mode, path, size, hash, mtime) ==
  Line(type, ToString8(mode), path, ToInt32(size), hash, mtime)

\* BackupLog.parse of a line
Parse(line) ==
  IF line.type \in {"D", "F"}
  THEN [line EXCEPT !.size = IF line.type = "D" THEN 0 ELSE ToInt32(line.size)]
  ELSE line

\* ------------------------------------- BackupLog: the text of a manifest line
\* A line is a sequence of characters.  A word that the code never looks
\* into (a keyword, a hash, the JSON of the stats) counts as one character.
MaxPathLen == 2     \* characters of a path in a manifest entry

\* A JavaScript value of an entry's field: a number, a Date (`n` is its
\* time), a string (`s` are its characters), or undefined.
Num(n) == [kind |-> "number", n |-> n, s |-> << >>]

Date(t) == [kind |-> "date", n |-> t, s |-> << >>]

Str(s) == [kind |-> "string", n |-> 0, s |-> s]

Undefined == [kind |-> "undefined", n |-> 0, s |-> << >>]

DigitChar(d) == << "0", "1", "2", "3", "4", "5", "6", "7", "8", "9" >>[d + 1]

DigitOf(c) == CHOOSE d \in 0..9 : DigitChar(d) = c

\* String(n) of an integer
RECURSIVE Dec(_)
Dec(n) ==
  IF n < 0 THEN << "-" >> \o Dec(-n)
  ELSE IF n < 10 THEN << DigitChar(n) >>
  ELSE Append(Dec(n \div 10), DigitChar(n % 10))

\* Number(s) of the decimal digits s
RECURSIVE ParseDec(_)
ParseDec(s) ==
  IF s = << >> THEN 0
  ELSE IF Head(s) = "-" THEN -ParseDec(Tail(s))
  ELSE 10 * ParseDec(SubSeq(s, 1, Len(s) - 1)) + DigitOf(s[Len(s)])

\* mode.toString(8)
OctChars(n) == [i \in 1..Len(ToString8(n)) |-> DigitChar(ToString8(n)[i])]

\* date.toISOString()
ToISOString(t) == << "T" >> \o Dec(t) \o << "Z" >>

\* `${v}` in a template
Template(v) == IF v.kind = "number" THEN Dec(v.n) ELSE v.s

\* s.split(c)
RECURSIVE SplitOn(_, _)
SplitOn(s, c) ==
  IF \A i \in 1..Len(s) : s[i] # c THEN << s >>
  ELSE LET i == CHOOSE j \in 1..Len(s) : s[j] = c /\ \A k \in 1..(j - 1) : s[k] # c
       IN  << SubSeq(s, 1, i - 1) >> \o SplitOn(SubSeq(s, i + 1, Len(s)), c)

\* words.join(' ')
RECURSIVE JoinWords(_)
JoinWords(words) ==
  IF words = << >> THEN << >>
  ELSE IF Len(words) = 1 THEN words[1]
  ELSE words[1] \o << " " >> \o JoinWords(Tail(words))

\* path.replace(/\\/g, '/')
ReplaceBackslash(p) == [i \in 1..Len(p) |-> IF p[i] = "\\" THEN "/" ELSE p[i]]

\* JSON.stringify of a string: quotes and backslashes are escaped
RECURSIVE Escape(_)
Escape(s) ==
  IF s = << >> THEN << >>
  ELSE (IF Head(s) \in { "\"", "\\" } THEN << "\\", Head(s) >> ELSE << Head(s) >>)
       \o Escape(Tail(s))

JsonStringify(s) == << "\"" >> \o Escape(s) \o << "\"" >>

\* JSON.parse of a string literal
RECURSIVE Unescape(_)
Unescape(s) ==
  IF s = << >> THEN << >>
  ELSE IF Head(s) = "\\" /\ Len(s) >= 2 THEN << s[2] >> \o Unescape(SubSeq(s, 3, Len(s)))
  ELSE << Head(s) >> \o Unescape(Tail(s))

JsonParse(s) == Unescape(SubSeq(s, 2, Len(s) - 1))

\* the inside of a string literal: no bare quote, and an escape after every
\* backslash
RECURSIVE WellEscaped(_)
WellEscaped(s) ==
  IF s = << >> THEN TRUE
  ELSE IF Head(s) = "\\"
       THEN Len(s) >= 2 /\ s[2] \in { "\"", "\\" } /\ WellEscaped(SubSeq(s, 3, Len(s)))
  ELSE Head(s) # "\"" /\ WellEscaped(Tail(s))

\* JSON.parse throws a SyntaxError: the text is neither the stats object nor
\* a string literal; the empty text is neither
JsonParseThrows(s) ==
  ~ \/ s = << "{stats}" >>
    \/ Len(s) >= 2 /\ s[1] = "\"" /\ s[Len(s)] = "\"" /\ WellEscaped(SubSeq(s, 2, Len(s) - 1))

\* faulty variant: the path is taken to be the ninth word
NinthWord(words) == << words[9] >>

\* parse: words.slice(8), the words of the path
PathWords(words) == SubSeq(words, 9, Len(words))

\* a record that is not of a file or a directory has none of their fields
NoEntry ==
  [type |-> "UNKNOWN", uid |-> Undefined, gid |-> Undefined, mode |-> Undefined,
   ctime |-> Undefined, mtime |-> Undefined, size |-> Undefined, hash |-> << >>,
   path |-> << >>, rest |-> << >>]

\* BackupLog.entryToString: the text of the line, or that it throws
\* (mode.toString of an undefined mode).
EntryToStringText(e) ==
  IF e.mode.kind = "undefined" \/ e.ctime.kind = "undefined" \/ e.mtime.kind = "undefined"
  THEN [threw |-> TRUE, line |-> << >>]
  ELSE LET mode == IF e.mode.kind # "string" THEN OctChars(e.mode.n) ELSE e.mode.s
           ctime == IF e.ctime.kind # "string" THEN ToISOString(e.ctime.n) ELSE e.ctime.s
           mtime == IF e.mtime.kind # "string" THEN ToISOString(e.mtime.n) ELSE e.mtime.s
           size == IF e.size.kind # "string" THEN Dec(ToInt32(e.size.n)) ELSE e.size.s
       IN  [threw |-> FALSE,
            line |-> << e.type, " " >> \o Template(e.uid) \o << ":" >> \o Template(e.gid)
                     \o << ":" >> \o mode \o << " " >> \o ctime \o << " " >> \o mtime
                     \o << " ", "-", " " >> \o size \o << " " >> \o e.hash
                     \o << " ", "0", " " >> \o JsonStringify(ReplaceBackslash(e.path))]

\* create: `V${VERSION} type uid:gid:mode ctime mtime - size hash 0 path`
HeaderText ==
  << "V", "2", " ", "type", " ", "uid:gid:mode", " ", "ctime", " ", "mtime", " ", "-",
     " ", "size", " ", "hash", " ", "0", " ", "path" >>

\* writeSourceEntry: `SOURCE ${root}`
SourceText(root) == << "SOURCE", " " >> \o root

\* finish: `V${VERSION} STATUS ${status}`, status = 'OK ' + JSON.stringify(stats)
StatusText == << "V", "2", " ", "STATUS", " ", "OK", " ", "{stats}" >>

\* finish(), its status left to the default: `V${VERSION} STATUS OK`
FinishText == << "V", "2", " ", "STATUS", " ", "OK" >>

\* parse: `mode[0] && mode[0]|0`
AndInt(s) == IF s = << >> THEN Str(<< >>) ELSE Num(ToInt32(ParseDec(s)))

\* BackupLog.parse(line)
ParseText(line) ==
  LET words == SplitOn(line, " ")
  IN  IF words[1] \in { << "V", "1" >>, << "V", "2" >> }
      THEN IF Len(words) >= 2 /\ words[2] = << "STATUS" >>
           THEN [NoEntry EXCEPT !.type = "STATUS",
                                !.rest = words[3] \o
                                         JoinWords(SubSeq(words, 4, Len(words)))]
           ELSE [NoEntry EXCEPT !.type = "HEADER", !.rest = << words[1][2] >>]
      ELSE IF words[1] = << "SOURCE" >>
      THEN [NoEntry EXCEPT !.type = "SOURCE",
                           !.rest = SubSeq(line, Len(words[1]) + 2, Len(line))]
      ELSE IF words[1] \in { << "D" >>, << "F" >> }
      THEN LET path == JsonParse(JoinWords(PathWords(words)))
               split == SplitOn(words[2], ":")
               mode == IF Len(split) = 1 THEN << << >>, << >> >> \o split ELSE split
           IN  [type |-> words[1][1],
                uid |-> AndInt(mode[1]),
                gid |-> AndInt(mode[2]),
                mode |-> Str(mode[3]),
                ctime |-> Str(words[3]),
                mtime |-> Str(words[4]),
                size |-> IF words[1] = << "D" >> THEN Num(0)
                         ELSE Num(ToInt32(ParseDec(words[6]))),
                hash |-> words[7],
                path |-> path,
                rest |-> << >>]
      ELSE [NoEntry EXCEPT !.rest = line]

\* BackupLog.parse(line) throws what JSON.parse throws
ParseThrows(line) ==
  LET words == SplitOn(line, " ")
  IN  IF words[1] \in { << "V", "1" >>, << "V", "2" >> }
      THEN /\ Len(words) >= 2 /\ words[2] = << "STATUS" >>
           /\ JsonParseThrows(JoinWords(SubSeq(words, 4, Len(words))))
      ELSE /\ words[1] \in { << "D" >>, << "F" >> }
           /\ JsonParseThrows(JoinWords(PathWords(words)))

\* The characters of the paths, and the paths.
PathAlphabet == { "a", " ", "\"", "\\" }

EntryPaths == UNION { [1..n -> PathAlphabet] : n \in 1..MaxPathLen }

\* The entries BackupSource._log passes to writeEntry: `uid || ''`,
\* `mode || ''`, `birthtime || ''`, the mtime, the size of the stat, the hash
\* ('-' for a directory) and the path.  The uid and the sizes are numbers
\* that `|0` leaves as they are.
Entries ==
  { [type |-> t, uid |-> u, gid |-> u, mode |-> m, ctime |-> c, mtime |-> Date(3),
     size |-> Num(sz), hash |-> IF t = "D" THEN << "-" >> ELSE << "h" >>, path |-> p,
     rest |-> << >>] :
      t \in { "D", "F" }, u \in { Num(5), Str(<< >>) },
      m \in { Num(420), Num(493), Str(<< >>) }, c \in { Date(1), Str(<< >>) },
      sz \in { 0, 1, 5 }, p \in EntryPaths }

\* lines whose first word is none of V1, V2, SOURCE, D, F
UnknownLines ==
  { << "X" >>, << "V", "3", " ", "STATUS", " ", "OK" >>, << "f", " ", "\"", "a" >>,
    << "STATUS", " ", "OK">>, << " ", "F" >> }

\* what a line is written for: the header, a source, an entry, the status of
\* BackupSet.complete, the status of finish(), and a line of another writer
Written ==
  { [kind |-> "header", e |-> NoEntry], [kind |-> "source", e |-> NoEntry],
    [kind |-> "status", e |-> NoEntry], [kind |-> "finish", e |-> NoEntry] }
    \cup { [kind |-> "entry", e |-> e] : e \in Entries }
    \cup { [kind |-> "unknown", e |-> [NoEntry EXCEPT !.rest = l]] : l \in UnknownLines }

NoManifest ==
  [pc |-> "idle", kind |-> "none", e |-> NoEntry, line |-> << >>, parsed |-> NoEntry,
   threw |-> FALSE, again |-> << >>]

VARIABLES
  files,        \* source files: path -> [content, mtime]
  clock,        \* the wall clock, in milliseconds
  objects,      \* files.db: path below files.db -> blob
  fsdirs,       \* files.db: the directories below it that exist
  logs,         \* backups/<userid>/: when -> the lines of <setname>.<when>
  rootLogs,     \* backups/: the same for logs that lie directly in it
  fdOpen,       \* the log's file descriptor is open
  fdPos,        \* its file position, in lines
  tasks,        \* appends in flight: [line, phase, awaited]
  proc,         \* the operation the process runs, "none" when there is none
  pc,           \* its position
  lastBackup,   \* BackupSet.lastBackup
  started,      \* BackupSet.started
  srcIdx,       \* the source being walked
  stack,        \* the walker's frames: [dir, todo]
  cur,          \* _backupFile's locals
  stats,        \* BackupSet.stats: files and backedUp.files
  checkHash,    \* BackupSource.checkHash
  hashes,       \* clean: the keys getAllActiveHashes returned
  scan,         \* _scanFs's frames: [dir, todo]
  rmTasks,      \* Deno.remove(dir) operations in flight: dir -> how many
  cleaned,      \* clean: stats.cleaned
  todo,         \* restore: the lines still to be restored, and `root`
  output,       \* restore's output directory: path -> [content, mtime]
  outcome,      \* what the operation under way, or else the last one, printed
  sources,      \* BackupSet.sources: the source roots, in order
  runs,         \* backup runs that may still be started
  mods,         \* modifications of source files that may still happen
  crashes,      \* cancellations that may still happen
  maint,        \* clean / fsck / verify / restore operations that may still start
  zip,          \* one fs.zip of a file followed by one fs.unzip of the object
  pipe,         \* one getUint8Pipe(): its queue, eof, and what went in and out
  filter,       \* one Filter: its patterns, its items, and one ignores(str)
  srcFilters,   \* BackupSource.filters: the patterns of the sources
  deepscan,     \* BackupSource.deepscan
  conn,         \* one LocalBackup and its connect(create)
  faults,       \* the operations that fail: <<file, operation>>
  manifest,     \* one line of a manifest: written, parsed and written again
  stream,       \* one zip2stream: the producer, its pipe and the pipe's reader
  siblings      \* one backups/<userid>/ shared by several sets, and one getLastBackup

vars == << files, clock, objects, fsdirs, logs, rootLogs, fdOpen, fdPos, tasks, proc, pc,
           lastBackup, started, srcIdx, stack, cur, stats, checkHash, hashes, scan, rmTasks, cleaned,
           todo, output, outcome, sources, runs, mods, crashes, maint, zip, pipe,
           filter, srcFilters, deepscan, conn, faults, manifest,
           stream, siblings >>

walkVars == << lastBackup, started, srcIdx, stack, cur, stats, checkHash >>

maintVars == << hashes, scan, rmTasks, cleaned, todo >>

outVars == << output, outcome >>

\* the variables no operation on the target changes
inputVars ==
  << sources, rootLogs, zip, pipe, filter, srcFilters, deepscan, conn, faults,
     manifest, stream, siblings >>

\* the variables of the target, its sources and the process that works on it
targetVars ==
  << files, clock, objects, fsdirs, logs, rootLogs, fdOpen, fdPos, tasks, proc, pc,
     lastBackup, started, srcIdx, stack, cur, stats, checkHash, hashes, scan, rmTasks,
     cleaned, todo, output, outcome, sources, runs, mods, crashes, maint, srcFilters,
     deepscan, faults >>

\* the variables of the streams, the pipe and the filter
streamVars == << zip, pipe, filter, manifest, stream, siblings >>

budgetVars == << inputVars, runs, mods, crashes, maint >>

NoBackup == [time |-> -1, F |-> << >>]

\* `reads` records what the source file has been opened for since _backupFile
\* was entered: "hash" by fs.hash, "store" by fs.zip.
NoCur ==
  [fn |-> <<>>, size |-> 0, mtime |-> 0, hash |-> NoHash, stored |-> FALSE,
   modified |-> "a", reads |-> {}]

NoStats == [files |-> 0, backedUp |-> 0, skipped |-> 0]

NoTodo == [lines |-> << >>, root |-> << >>, compare |-> FALSE, when |-> << >>]

NoZip == [pc |-> "idle", src |-> << >>, obj |-> << >>, out |-> << >>, pos |-> 0,
          p |-> << >>, v |-> TRUE]

\* `bytesIn` and `bytesOut` are all the bytes written and all the bytes read
\* returned, `taken` the chunks read took off the queue, `isLast` that a chunk
\* flagged isLast was written, `ret` what the last read returned.
NoPipe == [chunks |-> << >>, eof |-> FALSE, bytesIn |-> << >>, bytesOut |-> << >>,
           taken |-> 0, isLast |-> FALSE, ret |-> "none"]

NoFilter ==
  [pc |-> "new", patterns |-> << >>, filters |-> << >>, str |-> << >>, i |-> 0,
   ignored |-> 0]

\* `disk` is the fstype in the target's config.json ("none" without the file),
\* `fstype` the requested one ("" when none is requested), `config` the fstype
\* of this.config ("null" while there is no config object), `saving` that a
\* saveConfig is under way, `location` where the object store points.
NoConn ==
  [pc |-> "idle", create |-> FALSE, fstype |-> "", disk |-> "none", config |-> "null",
   saving |-> FALSE, location |-> "null"]

\* What an operation printed: whether it ended in an error, whether it printed
\* its totals, the totals, and verify's line for every F entry.
\* `left` are the blocks of the file still to be read, `blocks` the calls of
\* the zipper's callback so far, `resolved` that the caller has the reader,
\* `queued` the chunks in the pipe, `reading` that a read is under way and
\* `ret` what the last read returned.
NoStream ==
  [pc |-> "idle", left |-> 0, blocks |-> 0, resolved |-> FALSE, queued |-> 0,
   eof |-> FALSE, reading |-> FALSE, ret |-> "none"]

\* `names` are the files of backups/<userid>/, each with the set and the time of
\* the run that wrote it; `setname` is the set getLastBackup is called for,
\* `lastBackup` its local of that name, `ret` what it returned and `read` the
\* file it read.
NoSiblings ==
  [names |-> << >>, setname |-> << >>, pc |-> "idle", lastBackup |-> << >>,
   ret |-> "none", read |-> << >>]

NoOutcome ==
  [op |-> "none", error |-> FALSE, reported |-> FALSE, total |-> 0, verified |-> 0,
   orphaned |-> 0, damaged |-> 0, missing |-> 0, cleaned |-> 0, report |-> << >>]

\* the source tree as it is before the first run
SourceTree ==
  /\ files = [p \in FilePaths |->
                [content |-> IF p = <<"s1", "a">> THEN "x" ELSE "y", mtime |-> 0]]
  /\ sources = <<"s1">>
  /\ srcFilters = << >>
  /\ deepscan = FALSE
  /\ faults = {}

\* a target that connect(create) has just initialised
EmptyTarget ==
  /\ objects = << >>
  /\ fsdirs = { << >> }
  /\ logs = << >>
  /\ rootLogs = << >>
  /\ output = << >>

\* no process works on the target
NoProcess ==
  /\ fdOpen = FALSE
  /\ fdPos = 0
  /\ tasks = {}
  /\ proc = "none"
  /\ pc = "idle"
  /\ lastBackup = NoBackup
  /\ stats = NoStats
  /\ checkHash = FALSE
  /\ started = 0
  /\ srcIdx = 0
  /\ stack = << >>
  /\ cur = NoCur
  /\ hashes = {}
  /\ scan = << >>
  /\ rmTasks = << >>
  /\ cleaned = 0
  /\ todo = NoTodo
  /\ outcome = NoOutcome

\* no stream, pipe or filter is in use, no target is being connected
NoStreams ==
  /\ zip = NoZip
  /\ pipe = NoPipe
  /\ filter = NoFilter
  /\ conn = NoConn
  /\ manifest = NoManifest
  /\ stream = NoStream /\ siblings = NoSiblings

Init ==
  /\ SourceTree /\ EmptyTarget /\ NoProcess /\ NoStreams
  /\ clock = 0
  /\ runs = MaxRuns /\ mods = MaxMods /\ crashes = MaxCrashes /\ maint = MaxMaint

\* ------------------------------------------------------------- small helpers
Put(f, k, v) == [x \in DOMAIN f \cup {k} |-> IF x = k THEN v ELSE f[x]]

Drop(f, k) == [x \in DOMAIN f \ {k} |-> f[x]]

\* the <when> part of a log name
Running == <<"running">>

Current == <<"current">>

When(ts) == <<"ts", ts>>

IsTimestamp(w) == w # Running /\ w # Current

\* The process ends (it returned, it threw, or it was killed): every local of
\* it is gone, its descriptors are closed and its pending operations die.
ProcessGone ==
  /\ proc' = "none"
  /\ pc' = "idle"
  /\ tasks' = {}
  /\ fdOpen' = FALSE
  /\ fdPos' = 0
  /\ lastBackup' = NoBackup
  /\ stats' = NoStats
  /\ checkHash' = FALSE
  /\ started' = 0
  /\ srcIdx' = 0
  /\ stack' = << >>
  /\ cur' = NoCur
  /\ hashes' = {}
  /\ scan' = << >>
  /\ rmTasks' = << >>
  /\ cleaned' = 0
  /\ todo' = NoTodo

\* ---------------------------------------------------------- faulty variants
\* What the program would be with one decision of its code changed; each
\* property below is violated by one of them.
StoreNever(key) == FALSE

StoreAlways(key) == TRUE

NeverLive(key, live) == FALSE

AlwaysLive(key, live) == TRUE

NeverRunning == FALSE

NeverTruncates(flags) == FALSE

SeekStart(content) == 0

NoneDamaged(live) == { }

NeverSkip(fn, size, mtime) == FALSE

AlwaysSame(size, mtime, last) == TRUE

\* ------------------------------------------------------ FsFile.append tasks
Task(line, awaited) == [line |-> line, phase |-> "seek", awaited |-> awaited]

\* the walker is suspended in `await ...appendFile(...)`
Waiting == \E t \in tasks : t.awaited

\* Deno.seek(rid, 0, Deno.SeekMode.End): the new file position
SeekEnd(content) == Len(content)

\* Deno.write(rid, data): the data goes to the descriptor's file position
WriteAt(content, at, line) ==
  IF at >= Len(content) THEN Append(content, line)
  ELSE [content EXCEPT ![at + 1] = line]

\* await Deno.seek(rid, 0, Deno.SeekMode.End)
AppendSeek(t) ==
  /\ proc # "none"
  /\ t \in tasks /\ t.phase = "seek"
  /\ fdOpen
  /\ fdPos' = SeekEnd(logs[Running])
  /\ tasks' = (tasks \ {t}) \cup {[t EXCEPT !.phase = "write"]}
  /\ UNCHANGED << files, clock, objects, fsdirs, logs, fdOpen, proc, pc, walkVars,
                  maintVars, budgetVars, outVars >>

\* await Deno.write(rid, data)
AppendWrite(t) ==
  /\ proc # "none"
  /\ t \in tasks /\ t.phase = "write"
  /\ fdOpen
  /\ logs' = [logs EXCEPT ![Running] = WriteAt(@, fdPos, t.line)]
  /\ fdPos' = fdPos + 1
  /\ tasks' = tasks \ {t}
  /\ UNCHANGED << files, clock, objects, fsdirs, fdOpen, proc, pc, walkVars, maintVars,
                  budgetVars, outVars >>

\* A seek or write on the closed descriptor rejects (BadResource).  No append
\* that is still in flight after finish() closed the log is awaited, so the
\* rejection is unhandled and ends the process.
AppendOnClosed(t) ==
  /\ proc # "none"
  /\ t \in tasks
  /\ ~fdOpen
  /\ ProcessGone
  /\ UNCHANGED << files, clock, objects, fsdirs, logs, budgetVars, outVars >>

\* --------------------------------------------------------- BackupLog reading
\* the finalised logs of the set: every <when> but running and current
Finalised == { w \in DOMAIN logs : IsTimestamp(w) }

\* getLastBackup picks the largest <when>
LastWhen == CHOOSE w \in Finalised : \A v \in Finalised : v[2] <= w[2]

\* getLastBackup's log.forEach: `source` is set by the SOURCE lines, and
\* info.F[path.join(source, entry.path)] by the F lines after it.
RECURSIVE Materialise(_, _, _)
Materialise(lines, source, F) ==
  IF lines = << >> THEN F
  ELSE LET e == Parse(Head(lines))
       IN  IF e.type = "SOURCE" THEN Materialise(Tail(lines), e.path, F)
           ELSE IF e.type = "F"
           THEN Materialise(Tail(lines), source,
                            Put(F, source \o e.path,
                                [hash |-> e.hash, size |-> e.size, mtime |-> e.mtime]))
           ELSE Materialise(Tail(lines), source, F)

\* path.join(source, entry.path) throws while `source` is still undefined
MaterialiseThrows(lines) ==
  \E i \in 1..Len(lines) :
    /\ lines[i].type \in {"D", "F"}
    /\ \A j \in 1..(i - 1) : lines[j].type # "SOURCE"

GetLastBackupInfo ==
  IF Finalised = {} THEN NoBackup
  ELSE [time |-> LastWhen[2], F |-> Materialise(logs[LastWhen], << >>, << >>)]

\* sameAsLastBackup(a, b)
SameAsLastBackup(size, mtime, last) == size = last.size /\ mtime = last.mtime

\* ----------------------------------------------------- Filter._init, ignores
\* A pattern and a path are sequences of characters; the first character of
\* a pattern is its type.  A RegExp is a sequence of atoms: the pieces that
\* _init's replacements put in, and single characters.
\* faulty variant: a pattern that starts with **/ is not expanded
NoStarStarSlash(p) == FALSE

\* p.substr(0,2) == '**' && p[2] == '/'
IsStarStarSlash(p) == Len(p) >= 3 /\ p[1] = "*" /\ p[2] = "*" /\ p[3] = "/"

\* .replace(/\*\*[\\/]/g, '{STARSTARGLOBSLASH}')
RECURSIVE ReplaceStarStarSlash(_)
ReplaceStarStarSlash(p) ==
  IF p = << >> THEN << >>
  ELSE IF IsStarStarSlash(p)
  THEN << "{STARSTARGLOBSLASH}" >> \o ReplaceStarStarSlash(SubSeq(p, 4, Len(p)))
  ELSE << Head(p) >> \o ReplaceStarStarSlash(Tail(p))

\* .replace(/\*\*/g, '{STARSTARGLOB}')
RECURSIVE ReplaceStarStar(_)
ReplaceStarStar(p) ==
  IF p = << >> THEN << >>
  ELSE IF Len(p) >= 2 /\ p[1] = "*" /\ p[2] = "*"
  THEN << "{STARSTARGLOB}" >> \o ReplaceStarStar(SubSeq(p, 3, Len(p)))
  ELSE << Head(p) >> \o ReplaceStarStar(Tail(p))

\* .replace(/x/g, atom) for a single character x
Replace(p, x, atom) == [i \in 1..Len(p) |-> IF p[i] = x THEN atom ELSE p[i]]

\* new RegExp('^' + p.replace(...)...): '\.' is the string '.', so a dot of the
\* pattern stays the RegExp's dot; there is no '$'
RegExpOf(p) ==
  Replace(
    Replace(
      Replace(
        Replace(
          Replace(ReplaceStarStar(ReplaceStarStarSlash(p)), ".", "."),
          "/", "[/]"),
        "*", "[^/]*"),
      "{STARSTARGLOB}", ".*"),
    "{STARSTARGLOBSLASH}", ".+[/]")

\* re.test(str)
RECURSIVE Test(_, _)
Test(re, str) ==
  IF re = << >> THEN TRUE
  ELSE LET atom == Head(re)
           After(k) == Test(Tail(re), SubSeq(str, k + 1, Len(str)))
       IN  IF atom = ".+[/]"
           THEN \E k \in 1..(Len(str) - 1) : str[k + 1] = "/" /\ After(k + 1)
           ELSE IF atom = ".*"
           THEN \E k \in 0..Len(str) : After(k)
           ELSE IF atom = "[^/]*"
           THEN \E k \in 0..Len(str) : (\A i \in 1..k : str[i] # "/") /\ After(k)
           ELSE IF atom = "."
           THEN str # << >> /\ After(1)
           ELSE IF atom = "[/]"
           THEN str # << >> /\ str[1] = "/" /\ After(1)
           ELSE str # << >> /\ str[1] = atom /\ After(1)

\* _init's re(patterns): a pattern that starts with **/ gives two items
RECURSIVE Re(_)
Re(patterns) ==
  IF patterns = << >> THEN << >>
  ELSE LET pattern == Head(patterns)
           type == pattern[1]
           p == Tail(pattern)
       IN  (IF IsStarStarSlash(p) THEN Re(<< <<type>> \o SubSeq(p, 4, Len(p)) >>)
            ELSE << >>)
             \o << [type |-> type, re |-> RegExpOf(p)] >>
             \o Re(Tail(patterns))

\* faulty variant: a later '+' match does not take back an earlier '-' match
MinusSticks(ignored, k, item, str) ==
  IF Test(item.re, str) /\ item.type = "-" THEN k ELSE ignored

\* ignores: `if (filter.re.test(str)) ignored = filter.type == '-' ? filter : null`
\* (the item is named by its place k in this.filters, null by 0)
IgnoresStep(ignored, k, item, str) ==
  IF Test(item.re, str) THEN (IF item.type = "-" THEN k ELSE 0) ELSE ignored

\* ignores(str): the loop over this.filters from item k on
RECURSIVE IgnoresLoop(_, _, _, _)
IgnoresLoop(items, k, ignored, str) ==
  IF k > Len(items) THEN ignored
  ELSE IgnoresLoop(items, k + 1, IgnoresStep(ignored, k, items[k], str), str)

\* new Filter({ filters }).ignores(str)
FilterIgnores(patterns, str) == IgnoresLoop(Re(patterns), 1, 0, str)

\* fs.open(fn, flags, mode): 'w' implies truncate (and create)
Truncates(flags) == "t" \in flags \/ "w" \in flags

\* the content of the file `when` of `dir` once it has been opened for writing
\* with flags that create it
Opened(dir, when, flags) ==
  IF when \in DOMAIN dir /\ ~Truncates(flags) THEN dir[when] ELSE << >>

\* ------------------------------------------------------------- a backup run
\* LocalBackup.backup: createNewInstance -> BackupLog.create('running')
CreateNewInstance ==
  /\ proc = "none"
  /\ runs > 0
  /\ runs' = runs - 1
  /\ clock' = clock + 1
  /\ outcome' = NoOutcome
  /\ proc' = "backup"
  /\ pc' = "created"
  /\ logs' = Put(logs, Running, Opened(logs, Running, { "w" }))
  /\ fdOpen' = TRUE
  /\ fdPos' = 0
  /\ tasks' = { Task(HeaderLine, TRUE) }
  /\ stats' = NoStats
  /\ checkHash' \in BOOLEAN
  /\ UNCHANGED << files, objects, fsdirs, inputVars, mods, crashes, maint, lastBackup,
                  started, srcIdx, stack, cur, maintVars, output >>

\* BackupSet.backupTo: getLastBackup, started = new Date()
GetLastBackup ==
  /\ proc = "backup" /\ pc = "created" /\ ~Waiting
  /\ IF Finalised # {} /\ MaterialiseThrows(logs[LastWhen])
     THEN /\ ProcessGone
          /\ UNCHANGED << files, clock, objects, fsdirs, logs, budgetVars, outVars >>
     ELSE /\ lastBackup' = GetLastBackupInfo
          /\ started' = clock
          /\ srcIdx' = 1
          /\ pc' = "source"
          /\ UNCHANGED << files, clock, objects, fsdirs, logs, fdOpen, fdPos, tasks,
                          proc, stack, cur, stats, checkHash, maintVars, budgetVars,
                          outVars >>

\* BackupSource.backupTo: writeSourceEntry is not awaited; _backupDir(src)
SourceBackupTo ==
  /\ proc = "backup" /\ pc = "source" /\ srcIdx <= Len(sources)
  /\ tasks' = tasks \cup { Task(SourceLine(<<sources[srcIdx]>>), FALSE) }
  /\ stack' = << [dir |-> <<sources[srcIdx]>>, todo |-> << >>, scan |-> FALSE] >>
  /\ pc' = "dir_stat"
  /\ UNCHANGED << files, clock, objects, fsdirs, logs, fdOpen, fdPos, proc, lastBackup, stats, checkHash,
                  started, srcIdx, cur, maintVars, budgetVars, outVars >>

\* _backupDir: fs.stat(dirname), await this._log(instance, 'D', ...)
BackupDirStat ==
  /\ proc = "backup" /\ pc = "dir_stat"
  /\ tasks' = tasks \cup
       { Task(EntryToString("D", Mode(stack[Len(stack)].dir),
                            RelPath(stack[Len(stack)].dir), 0, NoHash, 0), TRUE) }
  /\ pc' = "dir_readdir"
  /\ UNCHANGED << files, clock, objects, fsdirs, logs, fdOpen, fdPos, proc, walkVars,
                  maintVars, budgetVars, outVars >>

\* _backupDir, _scanDir: fs.readdir(dirname)
BackupDirReaddir ==
  /\ proc = "backup" /\ pc = "dir_readdir" /\ ~Waiting
  /\ stack' = [stack EXCEPT ![Len(stack)].todo = ReadDir(stack[Len(stack)].dir)]
  /\ pc' = "dir_loop"
  /\ UNCHANGED << files, clock, objects, fsdirs, logs, fdOpen, fdPos, tasks, proc,
                  lastBackup, stats, checkHash, started, srcIdx, cur, maintVars, budgetVars, outVars >>

\* faulty variant: the filter ignores nothing
NeverIgnored(fn) == FALSE

\* _backupDir, _scanDir: filter.ignores(fn.substr(l))
Ignored(fn) == FilterIgnores(srcFilters, PathChars(RelPath(fn))) # 0

\* _backupDir, _scanDir: one turn of the loop over the directory's entries, or
\* its end.  A frame with `scan` is a call of _scanDir, which looks at the
\* directories only; _backupDir enters an ignored directory with _scanDir when
\* deepscan is on and passes it by when it is off.
BackupDirNext ==
  /\ proc = "backup" /\ pc = "dir_loop"
  /\ LET top == stack[Len(stack)]
     IN  IF top.todo = << >>
         THEN /\ stack' = SubSeq(stack, 1, Len(stack) - 1)
              /\ IF Len(stack) = 1
                 THEN srcIdx' = srcIdx + 1 /\ pc' = "source"
                 ELSE srcIdx' = srcIdx /\ pc' = "dir_loop"
              /\ cur' = cur
         ELSE LET entry == Head(top.todo)
                  fn == Join(top.dir, entry.name)
                  rest == [stack EXCEPT ![Len(stack)].todo = Tail(top.todo)]
                  frame(scanning) == [dir |-> fn, todo |-> << >>, scan |-> scanning]
              IN  /\ srcIdx' = srcIdx
                  /\ IF entry.isFile
                     THEN IF top.scan \/ Ignored(fn)
                          THEN stack' = rest /\ cur' = cur /\ pc' = "dir_loop"
                          ELSE /\ stack' = rest
                               /\ cur' = [NoCur EXCEPT !.fn = fn]
                               /\ pc' = "file_stat"
                     ELSE IF ~Ignored(fn)
                          THEN /\ stack' = Append(rest, frame(FALSE))
                               /\ cur' = cur
                               /\ pc' = "dir_stat"
                          ELSE IF top.scan \/ deepscan
                          THEN /\ stack' = Append(rest, frame(TRUE))
                               /\ cur' = cur
                               /\ pc' = "dir_readdir"
                          ELSE stack' = rest /\ cur' = cur /\ pc' = "dir_loop"
  /\ UNCHANGED << files, clock, objects, fsdirs, logs, fdOpen, fdPos, tasks, proc,
                  lastBackup, stats, checkHash, started, maintVars, budgetVars, outVars >>

\* The operations of _backupFile that can fail: fs.stat, fs.hash, instance.put
\* and this._log.
FileOps == { "stat", "hash", "put", "log" }

\* the operation `op` on the file `fn` throws
Fails(fn, op) == << fn, op >> \in faults

\* _backupFile's catch: stats.skipped++, throw e; the catch around the loop of
\* the _backupDir that called it: console.error(e), and _backupDir returns
\* with the rest of its directory not looked at.
BackupFileCatch ==
  /\ stats' = [stats EXCEPT !.skipped = @ + 1]
  /\ cur' = NoCur
  /\ stack' = SubSeq(stack, 1, Len(stack) - 1)
  /\ IF Len(stack) = 1
     THEN srcIdx' = srcIdx + 1 /\ pc' = "source"
     ELSE srcIdx' = srcIdx /\ pc' = "dir_loop"

\* _backupFile: `last && fstat.mtime`, then
\* `fstat.mtime <= this.lastBackup.time && sameAsLastBackup(fstat, last)`
Unchanged(fn, size, mtime) ==
  /\ fn \in DOMAIN lastBackup.F
  /\ mtime <= lastBackup.time
  /\ SameAsLastBackup(size, mtime, lastBackup.F[fn])

\* _backupFile: the branch that sets hash = last.hash
SkipHash(fn, size, mtime) == Unchanged(fn, size, mtime) /\ ~checkHash

\* _backupFile: the mark of a file whose hash is computed
Modified(fn, size, mtime) ==
  IF fn \notin DOMAIN lastBackup.F THEN "a"
  ELSE IF Unchanged(fn, size, mtime) THEN "c"
  ELSE "u"

\* _backupFile: fs.stat(fn) and the decision to reuse the last backup's hash
BackupFileStat ==
  /\ proc = "backup" /\ pc = "file_stat"
  /\ LET size == ByteLength(files[cur.fn].content)
         mtime == files[cur.fn].mtime
     IN  IF Fails(cur.fn, "stat")
         THEN BackupFileCatch
         ELSE /\ IF SkipHash(cur.fn, size, mtime)
                 THEN /\ cur' = [cur EXCEPT !.size = size, !.mtime = mtime,
                                            !.hash = lastBackup.F[cur.fn].hash,
                                            !.modified = "-"]
                      /\ pc' = "put"
                 ELSE /\ cur' = [cur EXCEPT !.size = size, !.mtime = mtime,
                                            !.modified = Modified(cur.fn, size, mtime)]
                      /\ pc' = "file_hash"
              /\ UNCHANGED << stats, srcIdx, stack >>
  /\ UNCHANGED << files, clock, objects, fsdirs, logs, fdOpen, fdPos, tasks, proc,
                  lastBackup, checkHash, started, maintVars, budgetVars, outVars >>

\* _backupFile: hash = await fs.hash(fn)
BackupFileHash ==
  /\ proc = "backup" /\ pc = "file_hash"
  /\ IF Fails(cur.fn, "hash")
     THEN BackupFileCatch
     ELSE /\ cur' = [cur EXCEPT !.hash = Sha256(files[cur.fn].content),
                                !.reads = @ \cup {"hash"}]
          /\ pc' = "put"
          /\ UNCHANGED << stats, srcIdx, stack >>
  /\ UNCHANGED << files, clock, objects, fsdirs, logs, fdOpen, fdPos, tasks, proc,
                  lastBackup, checkHash, started, maintVars, budgetVars, outVars >>

\* ------------------------------------------------- BackupFileSystem.put / store
\* HashFileSystemV5.exists(key)
Exists(key) == key \in DOMAIN objects

\* put: `if (!exists) await hfs.store(...)`
StoreNeeded(key) == ~Exists(key)

\* _backupFile: stats.files++;
\* put: key = hfs.getKey(hash, size); exists = await hfs.exists(key)
PutExists ==
  /\ proc = "backup" /\ pc = "put"
  /\ stats' = [stats EXCEPT !.files = @ + 1]
  /\ IF StoreNeeded(GetKey(cur.hash, cur.size))
     THEN pc' = "store_mkdirp" /\ cur' = cur
     ELSE pc' = "file_log" /\ cur' = [cur EXCEPT !.stored = TRUE]
  /\ UNCHANGED << files, clock, objects, fsdirs, logs, fdOpen, fdPos, tasks, proc,
                  lastBackup, checkHash, started, srcIdx, stack, maintVars, budgetVars, outVars >>

\* store: fs.mkdirp(path.join(root, path.dirname(key.name)), 0o700)
StoreMkdirp ==
  /\ proc = "backup" /\ pc = "store_mkdirp"
  /\ LET key == GetKey(cur.hash, cur.size)
     IN  fsdirs' = fsdirs \cup { <<key[1]>>, <<key[1], key[2]>> }
  /\ pc' = "store_open"
  /\ UNCHANGED << files, clock, objects, logs, fdOpen, fdPos, tasks, proc, walkVars,
                  maintVars, budgetVars, outVars >>

\* zip: FsFile.open(from, { read }), FsFile.open(to, { write, create, truncate })
StoreOpen ==
  /\ proc = "backup" /\ pc = "store_open"
  /\ IF Fails(cur.fn, "put")
     THEN BackupFileCatch /\ objects' = objects
     ELSE /\ objects' = Put(objects, GetKey(cur.hash, cur.size), Truncated)
          /\ cur' = [cur EXCEPT !.reads = @ \cup {"store"}]
          /\ pc' = "store_write"
          /\ UNCHANGED << stats, srcIdx, stack >>
  /\ UNCHANGED << files, clock, fsdirs, logs, fdOpen, fdPos, tasks, proc, lastBackup,
                  started, checkHash, maintVars, budgetVars, outVars >>

\* zip: the source is read and compressed into the object, up to the last chunk
StoreWrite ==
  /\ proc = "backup" /\ pc = "store_write"
  /\ objects' = Put(objects, GetKey(cur.hash, cur.size), Gzip(files[cur.fn].content))
  /\ cur' = [cur EXCEPT !.stored = TRUE]
  /\ pc' = "file_log"
  /\ UNCHANGED << files, clock, fsdirs, logs, fdOpen, fdPos, tasks, proc, lastBackup, stats, checkHash,
                  started, srcIdx, stack, maintVars, budgetVars, outVars >>

\* _backupFile: await this._log(instance, 'F', ...)
BackupFileLog ==
  /\ proc = "backup" /\ pc = "file_log"
  /\ IF Fails(cur.fn, "log")
     THEN BackupFileCatch /\ tasks' = tasks
     ELSE /\ tasks' = tasks \cup
               { Task(EntryToString("F", Mode(cur.fn), RelPath(cur.fn), cur.size,
                                    cur.hash, cur.mtime), TRUE) }
          /\ pc' = "file_logged"
          /\ UNCHANGED << stats, srcIdx, stack, cur >>
  /\ UNCHANGED << files, clock, objects, fsdirs, logs, fdOpen, fdPos, proc, lastBackup,
                  started, checkHash, maintVars, budgetVars, outVars >>

\* _backupFile: `if (stored) stats.backedUp.files++`, and the return to
\* _backupDir's loop
BackupFileDone ==
  /\ proc = "backup" /\ pc = "file_logged" /\ ~Waiting
  /\ stats' = [stats EXCEPT !.backedUp = IF cur.stored THEN @ + 1 ELSE @]
  /\ cur' = NoCur
  /\ pc' = "dir_loop"
  /\ UNCHANGED << files, clock, objects, fsdirs, logs, fdOpen, fdPos, tasks, proc,
                  lastBackup, checkHash, started, srcIdx, stack, maintVars, budgetVars, outVars >>

\* BackupSet.backupTo after the last source: instance.log().finish('OK ...')
Finish ==
  /\ proc = "backup" /\ pc = "source" /\ srcIdx > Len(sources)
  /\ tasks' = tasks \cup { Task(StatusLine, TRUE) }
  /\ pc' = "finish_close"
  /\ UNCHANGED << files, clock, objects, fsdirs, logs, fdOpen, fdPos, proc, walkVars,
                  maintVars, budgetVars, outVars >>

\* finish: this._log().close()
FinishClose ==
  /\ proc = "backup" /\ pc = "finish_close" /\ ~Waiting
  /\ fdOpen' = FALSE
  /\ pc' = "finished"
  /\ UNCHANGED << files, clock, objects, fsdirs, logs, fdPos, tasks, proc, walkVars,
                  maintVars, budgetVars, outVars >>

\* ------------------------------------------------------- BackupLog.complete
\* BackupLog.parseWhen(ts) of the run's start time
ParseWhen(ts) == When(ts)

\* fs.move(from, to)
CompleteMove ==
  /\ proc = "backup" /\ pc = "finished"
  /\ logs' = Put(Drop(logs, Running), ParseWhen(started), logs[Running])
  /\ pc' = "complete_unlink"
  /\ UNCHANGED << files, clock, objects, fsdirs, fdOpen, fdPos, tasks, proc, walkVars,
                  maintVars, budgetVars, outVars >>

\* if (await fs.exists(current)) await fs.unlink(current)
CompleteUnlink ==
  /\ proc = "backup" /\ pc = "complete_unlink"
  /\ logs' = Drop(logs, Current)
  /\ pc' = "complete_link"
  /\ UNCHANGED << files, clock, objects, fsdirs, fdOpen, fdPos, tasks, proc, walkVars,
                  maintVars, budgetVars, outVars >>

\* fs.link(to, current), or fs.copy(to, current) where links are not supported;
\* BackupSet.complete returns
CompleteLink ==
  /\ proc = "backup" /\ pc = "complete_link"
  /\ logs' = Put(logs, Current, logs[ParseWhen(started)])
  /\ ProcessGone
  /\ UNCHANGED << files, clock, objects, fsdirs, budgetVars, outVars >>

\* -------------------------------------------------- getLogs, live hashes
\* getLogs: the log files of backups/ (userid undefined) and, one level down,
\* those of its userid directories.  The set's name does not start with '.'.
NoUserid == << >>

Userid == <<"u">>

GetLogs ==
  { [userid |-> NoUserid, when |-> w] : w \in DOMAIN rootLogs } \cup
  { [userid |-> Userid, when |-> w] : w \in DOMAIN logs }

\* getAllActiveHashes throws "can't when a backup is running" when one of the
\* logs is <setname>.running
BackupIsRunning == \E l \in GetLogs : l.when = Running

\* new BackupInstance({ ..., userid: logEntry.userid }).getHashesFromInstanceLog:
\* _userid() throws when the log lies directly in backups/
UseridNotDefined == \E l \in GetLogs : l.userid = NoUserid /\ l.when # Current

HashesThrow == BackupIsRunning \/ UseridNotDefined

\* getHashesFromInstanceLog: `${entry.hash}.${entry.size}` of the F lines
HashesFromInstanceLog(lines) ==
  { KeyName(Parse(lines[i]).hash, Parse(lines[i]).size) :
      i \in { j \in 1..Len(lines) : Parse(lines[j]).type = "F" } }

\* getAllActiveHashes: .current is skipped, every other log contributes
GetAllActiveHashes ==
  UNION { HashesFromInstanceLog(logs[l.when]) :
            l \in { g \in GetLogs : g.userid = Userid /\ g.when # Current } }

\* fs.readdir(root) inside files.db: the directories and the files of `dir`
Below(dir, p) == Len(p) = Len(dir) + 1 /\ SubSeq(p, 1, Len(dir)) = dir

ScanDirs(dir) == { p \in fsdirs : Below(dir, p) }

ScanFiles(dir) == { p \in DOMAIN objects : Below(dir, p) }

\* `key in hashes`
IsLive(key, live) == key \in live

\* the operation threw: it prints the error, no totals, and the process ends
Failed(op) == [NoOutcome EXCEPT !.op = op, !.error = TRUE]

\* ------------------------------------------------------- LocalBackup.clean
CleanStart ==
  /\ proc = "none"
  /\ maint > 0
  /\ maint' = maint - 1
  /\ outcome' = NoOutcome
  /\ proc' = "clean"
  /\ pc' = "hashes"
  /\ UNCHANGED << files, clock, objects, fsdirs, logs, fdOpen, fdPos, tasks, walkVars,
                  maintVars, output, inputVars, runs, mods, crashes >>

\* clean: hashes = await this.getAllActiveHashes(); _scanFs(this.filesDb, ...)
CleanHashes ==
  /\ proc = "clean" /\ pc = "hashes"
  /\ IF HashesThrow
     THEN /\ outcome' = Failed("clean")
          /\ ProcessGone
          /\ UNCHANGED << files, clock, objects, fsdirs, logs, output, budgetVars >>
     ELSE /\ hashes' = GetAllActiveHashes
          /\ scan' = << [dir |-> << >>, read |-> FALSE, dirs |-> {}, files |-> {}] >>
          /\ pc' = "scan"
          /\ UNCHANGED << files, clock, objects, fsdirs, logs, fdOpen, fdPos, tasks, proc,
                          walkVars, rmTasks, cleaned, todo, outVars, budgetVars >>

\* _scanFs: dir = await fs.readdir(root)
ScanReaddir ==
  /\ proc = "clean" /\ pc = "scan"
  /\ scan # << >> /\ ~scan[Len(scan)].read
  /\ LET dir == scan[Len(scan)].dir
     IN  IF dir \in fsdirs
         THEN /\ scan' = [scan EXCEPT ![Len(scan)] =
                            [dir |-> dir, read |-> TRUE,
                             dirs |-> ScanDirs(dir), files |-> ScanFiles(dir)]]
              /\ UNCHANGED << files, clock, objects, fsdirs, logs, fdOpen, fdPos, tasks,
                              proc, pc, walkVars, hashes, rmTasks, cleaned, todo,
                              outVars, budgetVars >>
         ELSE /\ outcome' = Failed("clean")
              /\ ProcessGone
              /\ UNCHANGED << files, clock, objects, fsdirs, logs, output, budgetVars >>

\* _scanFs: a directory entry is scanned in turn
ScanEnter(d) ==
  /\ proc = "clean" /\ pc = "scan"
  /\ scan # << >> /\ scan[Len(scan)].read
  /\ d \in scan[Len(scan)].dirs
  /\ scan' = Append([scan EXCEPT ![Len(scan)].dirs = @ \ {d}],
                    [dir |-> d, read |-> FALSE, dirs |-> {}, files |-> {}])
  /\ UNCHANGED << files, clock, objects, fsdirs, logs, fdOpen, fdPos, tasks, proc, pc,
                  walkVars, hashes, rmTasks, cleaned, todo, outVars, budgetVars >>

\* fs.rmdir(fn) is `Deno.remove(fn)` without return: the removal is started
\* and not waited for, so _removeEntry's loop never sees ENOTEMPTY and goes
\* on to every directory from the entry's up to the one below files.db.
RmdirChain(dir) == { dir } \cup { SubSeq(dir, 1, n) : n \in 1..Len(dir) }

Issue(pending, dirs) ==
  [d \in DOMAIN pending \cup dirs |->
     (IF d \in DOMAIN pending THEN pending[d] ELSE 0) + (IF d \in dirs THEN 1 ELSE 0)]

\* clean's callback for a file entry: an entry whose key is not live is
\* counted, unlinked (_removeEntry) and its directories' removal is started
ScanFile(f) ==
  /\ proc = "clean" /\ pc = "scan"
  /\ scan # << >> /\ scan[Len(scan)].read
  /\ f \in scan[Len(scan)].files
  /\ scan' = [scan EXCEPT ![Len(scan)].files = @ \ {f}]
  /\ LET key == KeyFromFile(scan[Len(scan)].dir, f[Len(f)])
     IN  IF IsLive(key, hashes)
         THEN UNCHANGED << objects, rmTasks, cleaned >>
         ELSE /\ cleaned' = cleaned + 1
              /\ objects' = Drop(objects, f)
              /\ rmTasks' = Issue(rmTasks, RmdirChain(scan[Len(scan)].dir))
  /\ UNCHANGED << files, clock, fsdirs, logs, fdOpen, fdPos, tasks, proc, pc, walkVars,
                  hashes, todo, outVars, budgetVars >>

\* _scanFs returns when the entries of its directory are done
ScanLeave ==
  /\ proc = "clean" /\ pc = "scan"
  /\ scan # << >> /\ scan[Len(scan)].read
  /\ scan[Len(scan)].dirs = {} /\ scan[Len(scan)].files = {}
  /\ scan' = SubSeq(scan, 1, Len(scan) - 1)
  /\ UNCHANGED << files, clock, objects, fsdirs, logs, fdOpen, fdPos, tasks, proc, pc,
                  walkVars, hashes, rmTasks, cleaned, todo, outVars, budgetVars >>

\* clean: console.log('Cleaned', stats.cleaned, 'orphaned hashes'); it returns
CleanReturn ==
  /\ proc = "clean" /\ pc = "scan"
  /\ scan = << >>
  /\ outcome' = [NoOutcome EXCEPT !.op = "clean", !.reported = TRUE, !.cleaned = cleaned]
  /\ pc' = "returned"
  /\ UNCHANGED << files, clock, objects, fsdirs, logs, fdOpen, fdPos, tasks, proc,
                  walkVars, maintVars, output, budgetVars >>

\* A started Deno.remove(dir) runs.  On a directory that is not empty, or is
\* no longer there, its promise rejects; nothing handles the rejection, which
\* ends the process with an error.
RmdirRun(d) ==
  /\ proc = "clean"
  /\ d \in DOMAIN rmTasks /\ rmTasks[d] > 0
  /\ IF d \in fsdirs /\ ScanDirs(d) = {} /\ ScanFiles(d) = {}
     THEN /\ fsdirs' = fsdirs \ {d}
          /\ rmTasks' = [rmTasks EXCEPT ![d] = @ - 1]
          /\ UNCHANGED << files, clock, objects, logs, fdOpen, fdPos, tasks, proc, pc,
                          walkVars, hashes, scan, cleaned, todo, outVars, budgetVars >>
     ELSE /\ outcome' = [outcome EXCEPT !.op = "clean", !.error = TRUE]
          /\ ProcessGone
          /\ UNCHANGED << files, clock, objects, fsdirs, logs, output, budgetVars >>

\* the process exits when clean has returned and nothing is in flight
CleanExit ==
  /\ proc = "clean" /\ pc = "returned"
  /\ \A d \in DOMAIN rmTasks : rmTasks[d] = 0
  /\ ProcessGone
  /\ UNCHANGED << files, clock, objects, fsdirs, logs, outVars, budgetVars >>

\* -------------------------------------------------------- LocalBackup.fsck
\* fs.hashZip(key.path): the gunzip of a cut stream throws
HashZipOk(key, hash) ==
  /\ GunzipOk(objects[key])
  /\ Sha256(Gunzip(objects[key])) = hash

\* BackupFileSystem.verify(size, hash): exists, then hashKey(key) == hash
VerifyOk(size, hash) ==
  /\ Exists(GetKey(hash, size))
  /\ HashZipOk(GetKey(hash, size), hash)

\* fsck's callback: key.split('.') gives the hash and the size to verify
FsckOrphaned(live) ==
  { p \in DOMAIN objects : ~IsLive(KeyFromFile(<< >>, p[Len(p)]), live) }

FsckVerified(live) ==
  { p \in DOMAIN objects :
      /\ IsLive(KeyFromFile(<< >>, p[Len(p)]), live)
      /\ VerifyOk(p[Len(p)][2], p[Len(p)][1]) }

FsckDamaged(live) == (DOMAIN objects \ FsckOrphaned(live)) \ FsckVerified(live)

\* hashes[key].seen is set for the verified entries only
FsckMissing(live) == live \ { p[Len(p)] : p \in FsckVerified(live) }

FsckStart ==
  /\ proc = "none"
  /\ maint > 0
  /\ maint' = maint - 1
  /\ outcome' = NoOutcome
  /\ proc' = "fsck"
  /\ pc' = "hashes"
  /\ UNCHANGED << files, clock, objects, fsdirs, logs, fdOpen, fdPos, tasks, walkVars,
                  maintVars, output, inputVars, runs, mods, crashes >>

\* fsck: getAllActiveHashes, _scanFs with the classifying callback, the totals
FsckRun ==
  /\ proc = "fsck" /\ pc = "hashes"
  /\ outcome' =
       IF HashesThrow THEN Failed("fsck")
       ELSE LET live == GetAllActiveHashes
            IN  [NoOutcome EXCEPT !.op = "fsck", !.reported = TRUE,
                                  !.total = Cardinality(DOMAIN objects),
                                  !.verified = Cardinality(FsckVerified(live)),
                                  !.orphaned = Cardinality(FsckOrphaned(live)),
                                  !.damaged = Cardinality(FsckDamaged(live)),
                                  !.missing = Cardinality(FsckMissing(live))]
  /\ ProcessGone
  /\ UNCHANGED << files, clock, objects, fsdirs, logs, output, budgetVars >>

\* -------------------------------------------------- BackupInstance.verify
\* getLinesFromLog(when): the parsed lines of the log
LinesFromLog(w) == [i \in 1..Len(logs[w]) |-> Parse(logs[w][i])]

\* an F (or D) entry before any SOURCE line: `root` is still undefined
NoRoot(lines, i) == \A j \in 1..(i - 1) : lines[j].type # "SOURCE"

\* `root` at line i: the root of the last SOURCE line before it
RootAt(lines, i) ==
  LET before == { j \in 1..(i - 1) : lines[j].type = "SOURCE" }
  IN  lines[CHOOSE j \in before : \A k \in before : k <= j].path

\* fs.compareZipWith(key.path, file): the promise resolves to whether the
\* object's decompressed bytes are the file's bytes
CompareZipWith(key, file) == Gunzip(objects[key]) = files[file].content

\* verify's line for an F entry.  BackupFileSystem.verify throws when the
\* object is missing or does not hash to its name, which is printed ERROR;
\* `if (compareWith) await hfs.compare(key, compareWith)` drops the boolean
\* compare resolves to, so the entry is printed OK then for either value.
VerifyLine(entry, compareWithFile) ==
  IF ~VerifyOk(entry.size, entry.hash) THEN "ERROR"
  ELSE IF compareWithFile # << >>
  THEN (IF CompareZipWith(GetKey(entry.hash, entry.size), compareWithFile)
        THEN "OK" ELSE "OK")
  ELSE "OK"

VerifyStart(w, compare) ==
  /\ proc = "none"
  /\ maint > 0
  /\ w \in DOMAIN logs
  /\ maint' = maint - 1
  /\ outcome' = NoOutcome
  /\ proc' = "verify"
  /\ pc' = "lines"
  /\ todo' = [NoTodo EXCEPT !.lines = LinesFromLog(w), !.compare = compare]
  /\ UNCHANGED << files, clock, objects, fsdirs, logs, fdOpen, fdPos, tasks, walkVars,
                  hashes, scan, rmTasks, cleaned, output, inputVars, runs, mods, crashes >>

\* verify: every F entry is verified against the store and, with compare,
\* against path.join(root, entry.path); its line is printed
VerifyRun ==
  /\ proc = "verify" /\ pc = "lines"
  /\ LET lines == todo.lines
         F == { i \in 1..Len(lines) : lines[i].type = "F" }
         ok == { i \in F : VerifyOk(lines[i].size, lines[i].hash) }
         file(i) == IF todo.compare THEN RootAt(lines, i) \o lines[i].path ELSE << >>
     IN  outcome' =
           IF \E i \in F : NoRoot(lines, i) THEN Failed("verify")
           ELSE [NoOutcome EXCEPT !.op = "verify", !.reported = TRUE,
                                  !.total = Cardinality(F),
                                  !.verified = Cardinality(ok),
                                  !.damaged = Cardinality(F \ ok),
                                  !.report = [i \in 1..Len(lines) |->
                                                IF i \in F THEN VerifyLine(lines[i], file(i))
                                                ELSE "-"]]
  /\ ProcessGone
  /\ UNCHANGED << files, clock, objects, fsdirs, logs, output, budgetVars >>

\* ------------------------------------------------- BackupInstance.restore
\* restore with --output: the entries go below the output directory
RestoreStart(w) ==
  /\ proc = "none"
  /\ maint > 0
  /\ w \in DOMAIN logs
  /\ maint' = maint - 1
  /\ outcome' = NoOutcome
  /\ proc' = "restore"
  /\ pc' = "lines"
  /\ todo' = [NoTodo EXCEPT !.lines = LinesFromLog(w), !.when = w]
  /\ UNCHANGED << files, clock, objects, fsdirs, logs, fdOpen, fdPos, tasks, walkVars,
                  hashes, scan, rmTasks, cleaned, output, inputVars, runs, mods, crashes >>

\* the mode a file or directory is created with: 0o666 or 0o777 less the umask
CreateMode(isFile) == IF isFile THEN 420 ELSE 493

\* m | 0o100
OrExec(m) == IF (m \div 64) % 2 = 1 THEN m ELSE m + 64

\* restoreEntry of a D entry: fs.mkdirp(to, parseInt(entry.mode, 8) | 0o100)
\* makes the directory unless it is there
Directory(mode) == [content |-> "/", mtime |-> clock, mode |-> OrExec(mode)]

\* the local file is there with the entry's hash and size
NotChanged(entry) ==
  /\ entry.path \in DOMAIN output
  /\ Sha256(output[entry.path].content) = entry.hash
  /\ ByteLength(output[entry.path].content) = entry.size

\* no `old` is passed to chstat
NoOld == [mode |-> -1, mtime |-> -1]

\* fs.chstat(fn, stat, old) on the file f: Deno.chmod(fn, stat.mode) unless
\* old has the same mode, and Deno.utime(fn, stat.atime, stat.mtime); the
\* mtimes are Date objects, which `!=` never finds equal
Chstat(f, stat, old) ==
  [f EXCEPT !.mode = IF old = NoOld \/ stat.mode # old.mode THEN stat.mode ELSE @,
            !.mtime = stat.mtime]

\* fs.stat(file) of a file of the output directory
StatOf(f) == [mode |-> f.mode, mtime |-> f.mtime]

\* the stat restore makes of an entry: parseInt(entry.mode, 8), new Date(entry.mtime)
StatOfEntry(entry) == [mode |-> ParseInt8(entry.mode), mtime |-> entry.mtime]

\* fs.unzip(key.path, file) can write the whole file
UnzipOk(key) == Exists(key) /\ GunzipOk(objects[key])

\* restore: one turn of the loop over the lines, or its end.  For a file that
\* is not changed restore calls fs.chstat(file, stat, old) with `stat` the
\* file's own stat and `old` the entry's values; restoreEntry unzips the
\* object and calls fs.chstat(to, stat) with the entry's values.
RestoreNext ==
  /\ proc = "restore" /\ pc = "lines"
  /\ IF todo.lines = << >>
     THEN /\ outcome' = [NoOutcome EXCEPT !.op = "restore"]
          /\ output' = output
          /\ ProcessGone
     ELSE LET entry == Head(todo.lines)
              key == GetKey(entry.hash, entry.size)
              rest == [todo EXCEPT !.lines = Tail(@)]
              goOn == UNCHANGED << outcome, proc, pc, fdOpen, fdPos, tasks, walkVars,
                                   hashes, scan, rmTasks, cleaned >>
          IN  IF entry.type \in {"HEADER", "STATUS"}
              THEN todo' = rest /\ output' = output /\ goOn
              ELSE IF entry.type = "SOURCE"
              THEN todo' = [rest EXCEPT !.root = entry.path] /\ output' = output /\ goOn
              ELSE IF todo.root = << >>
              THEN outcome' = Failed("restore") /\ output' = output /\ ProcessGone
              ELSE IF entry.type = "D"
              THEN /\ todo' = rest
                   /\ output' = IF entry.path \in DOMAIN output THEN output
                                ELSE Put(output, entry.path,
                                         Directory(ParseInt8(entry.mode)))
                   /\ goOn
              ELSE IF NotChanged(entry)
              THEN /\ todo' = rest
                   /\ output' = [output EXCEPT ![entry.path] =
                                   Chstat(@, StatOf(@), StatOfEntry(entry))]
                   /\ goOn
              ELSE IF UnzipOk(key)
              THEN /\ todo' = rest
                   /\ output' = Put(output, entry.path,
                                    Chstat([content |-> Gunzip(objects[key]),
                                            mtime |-> clock,
                                            mode |-> IF entry.path \in DOMAIN output
                                                     THEN output[entry.path].mode
                                                     ELSE CreateMode(TRUE)],
                                           StatOfEntry(entry), NoOld))
                   /\ goOn
              ELSE \* unzip's rejection is not handled: the process ends
                   /\ outcome' = Failed("restore")
                   /\ output' = IF Exists(key)
                                THEN Put(output, entry.path,
                                         [content |-> "", mtime |-> clock,
                                          mode |-> IF entry.path \in DOMAIN output
                                                   THEN output[entry.path].mode
                                                   ELSE CreateMode(TRUE)])
                                ELSE output
                   /\ ProcessGone
  /\ UNCHANGED << files, clock, objects, fsdirs, logs, budgetVars >>

\* ------------------------------------------------------------ the environment
\* A source file is rewritten; its mtime becomes the time of the write, or is
\* put back to what it was (utime).
Modify(f, c, keep) ==
  /\ mods > 0
  /\ \E i \in 1..Len(sources) : sources[i] = f[1]
  /\ c \in Rewrites(f) /\ c # files[f].content
  /\ mods' = mods - 1
  /\ clock' = clock + 1
  /\ files' = [files EXCEPT ![f] = [content |-> c,
                                    mtime |-> IF keep THEN @.mtime ELSE clock + 1]]
  /\ UNCHANGED << objects, fsdirs, logs, fdOpen, fdPos, tasks, proc, pc, inputVars, runs,
                  crashes, maint, walkVars, maintVars, outVars >>

\* The process is cancelled (killed) at any step.
Cancel ==
  /\ proc # "none"
  /\ crashes > 0
  /\ crashes' = crashes - 1
  /\ ProcessGone
  /\ UNCHANGED << files, clock, objects, fsdirs, logs, inputVars, runs, mods, maint,
                  outVars >>

Backup ==
  \/ CreateNewInstance
  \/ GetLastBackup
  \/ SourceBackupTo
  \/ BackupDirStat
  \/ BackupDirReaddir
  \/ BackupDirNext
  \/ BackupFileStat
  \/ BackupFileHash
  \/ PutExists
  \/ StoreMkdirp
  \/ StoreOpen
  \/ StoreWrite
  \/ BackupFileLog
  \/ BackupFileDone
  \/ Finish
  \/ FinishClose
  \/ CompleteMove
  \/ CompleteUnlink
  \/ CompleteLink

Appends ==
  \E t \in tasks : AppendSeek(t) \/ AppendWrite(t) \/ AppendOnClosed(t)

Environment ==
  \/ \E f \in FilePaths, c \in Contents, keep \in BOOLEAN : Modify(f, c, keep)
  \/ Cancel

Clean ==
  \/ CleanStart
  \/ CleanHashes
  \/ ScanReaddir
  \/ \E d \in fsdirs : ScanEnter(d)
  \/ \E f \in DOMAIN objects : ScanFile(f)
  \/ ScanLeave
  \/ CleanReturn
  \/ \E d \in DOMAIN rmTasks : RmdirRun(d)
  \/ CleanExit

Fsck == FsckStart \/ FsckRun

Verify == (\E w \in DOMAIN logs, compare \in BOOLEAN : VerifyStart(w, compare)) \/ VerifyRun

Restore == (\E w \in DOMAIN logs : RestoreStart(w)) \/ RestoreNext

Next == Backup \/ Appends \/ Clean \/ Fsck \/ Verify \/ Restore \/ Environment

Spec == Init /\ [][Next]_vars

\* --------------------------------------------- one run over a filtered tree
\* The source s3 holds t, skip/f and skip/keep/x; it is walked once, with or
\* without deepscan, under one of the filter lists.
SkipPattern == << "-", "*", "*", "/", "skip" >>

KeepPattern == << "+", "*", "*", "/", "skip", "/", "keep" >>

WalkFilters == { << >>, << SkipPattern >>, << SkipPattern, KeepPattern >> }

InitWalk ==
  /\ EmptyTarget /\ NoProcess /\ NoStreams
  /\ files = [p \in FilePaths |-> [content |-> "y", mtime |-> 0]]
  /\ sources = <<"s3">>
  /\ srcFilters \in WalkFilters
  /\ deepscan \in BOOLEAN
  /\ faults = {}
  /\ clock = 0
  /\ runs = 1 /\ mods = 0 /\ crashes = 0 /\ maint = 0

NextWalk == Backup \/ Appends

SpecWalk == InitWalk /\ [][NextWalk]_vars

\* ------------------------------------- one run in which an operation may fail
\* One run over the source s1 into an empty target; at most one operation on
\* one file of the source fails.
FaultSets ==
  { {} } \cup { { << f, op >> } : f \in { <<"s1", "a">>, <<"s1", "d", "b">> },
                                  op \in FileOps }

InitFault ==
  /\ EmptyTarget /\ NoProcess /\ NoStreams
  /\ files = [p \in FilePaths |->
                [content |-> IF p = <<"s1", "a">> THEN "x" ELSE "y", mtime |-> 0]]
  /\ sources = <<"s1">>
  /\ srcFilters = << >>
  /\ deepscan = FALSE
  /\ faults \in FaultSets
  /\ clock = 0
  /\ runs = 1 /\ mods = 0 /\ crashes = 0 /\ maint = 0

NextFault == Backup \/ Appends

SpecFault == InitFault /\ [][NextFault]_vars

\* --------------------------------------------- one run over a file of 2^31 bytes
\* One run over the source s1 into an empty target, and one fsck or clean;
\* s1/a is a small file or one of BigSize.
InitBig ==
  /\ EmptyTarget /\ NoProcess /\ NoStreams
  /\ \E c \in { "x", "big" } :
       files = [p \in FilePaths |->
                  [content |-> IF p = <<"s1", "a">> THEN c ELSE "y", mtime |-> 0]]
  /\ sources = <<"s1">>
  /\ srcFilters = << >>
  /\ deepscan = FALSE
  /\ faults = {}
  /\ clock = 0
  /\ runs = 1 /\ mods = 0 /\ crashes = 0 /\ maint = MaxMaint

NextBig == Backup \/ Appends \/ Clean \/ Fsck

SpecBig == InitBig /\ [][NextBig]_vars

\* ---------------------------------------------- clean and fsck on any store
\* A target as earlier runs, cancelled runs and other tools can have left it:
\* objects at and off their V5 path, whole or cut, referenced or not, a finalised log of the
\* set, maybe a stale .running log, maybe a log directly in backups/.
OrphanKey == KeyName(Sha256("o"), 1)

Placements ==
  { GetKey(Sha256("x"), 1), GetKey(Sha256("y"), 1), GetKey(Sha256("o"), 1),
    << "d1a", OrphanKey >>, << OrphanKey >>, << KeyName(Sha256("x"), 1) >> }

\* the directories that hold the objects
DirsOf(paths) ==
  { << >> } \cup UNION { { SubSeq(p, 1, n) : n \in 0..(Len(p) - 1) } : p \in paths }

\* a log that a run over files with the contents R finalised
FileLine(c) == EntryToString("F", 420, <<c>>, ByteLength(c), Sha256(c), 0)

LogOf(R) ==
  << HeaderLine, SourceLine(<<"s1">>) >>
    \o (IF "x" \in R THEN << FileLine("x") >> ELSE << >>)
    \o (IF "y" \in R THEN << FileLine("y") >> ELSE << >>)
    \o << StatusLine >>

RootLogKinds == { "none", "running", "finalised" }

InitClean ==
  /\ SourceTree /\ NoProcess /\ NoStreams
  /\ clock = 2
  /\ output = << >>
  /\ \E paths \in SUBSET Placements : \E cut \in SUBSET paths :
       /\ objects = [p \in paths |-> IF p \in cut THEN Truncated
                                     ELSE Gzip(p[Len(p)][1][2])]
       /\ fsdirs = DirsOf(paths)
  /\ \E R \in SUBSET { "x", "y" }, stale \in BOOLEAN :
       logs = [w \in { When(1), Current } \cup (IF stale THEN { Running } ELSE {}) |->
                 IF w = Running THEN << HeaderLine >> ELSE LogOf(R)]
  /\ \E kind \in RootLogKinds :
       rootLogs = IF kind = "none" THEN << >>
                  ELSE IF kind = "running" THEN [w \in { Running } |-> << HeaderLine >>]
                  ELSE [w \in { When(0) } |-> LogOf({})]
  /\ runs = 0 /\ mods = 0 /\ crashes = 0 /\ maint = MaxMaint

NextClean == Clean \/ Fsck

SpecClean == InitClean /\ [][NextClean]_vars

\* ------------------------------------------- restore into any output directory
\* The target after one finalised run over s1 (a with content x, d/b with
\* content y, both last written at 1), its objects whole, and an output
\* directory that may hold either file already, with any content, mode and
\* mtime.
RunLog ==
  << HeaderLine, SourceLine(<<"s1">>),
     EntryToString("D", Mode(<<"s1">>), << >>, 0, NoHash, 0),
     EntryToString("F", Mode(<<"s1", "a">>), <<"a">>, 1, Sha256("x"), 1),
     EntryToString("D", Mode(<<"s1", "d">>), <<"d">>, 0, NoHash, 0),
     EntryToString("F", Mode(<<"s1", "d", "b">>), <<"d", "b">>, 1, Sha256("y"), 1),
     StatusLine >>

OutputPaths == { <<"a">>, <<"d", "b">> }

OutputFiles == [content : { "x", "y" }, mtime : { 1, 3 }, mode : { 384, 420 }]

InitRestore ==
  /\ SourceTree /\ NoProcess /\ NoStreams
  /\ clock = 5
  /\ objects = [k \in { GetKey(Sha256("x"), 1), GetKey(Sha256("y"), 1) } |->
                  Gzip(k[3][1][2])]
  /\ fsdirs = DirsOf(DOMAIN objects)
  /\ logs = [w \in { When(2), Current } |-> RunLog]
  /\ rootLogs = << >>
  /\ \E there \in SUBSET OutputPaths : \E f \in [there -> OutputFiles] :
       output = [p \in there \cup (IF there = {} THEN {} ELSE DirsOf(there)) |->
                   IF p \in there THEN f[p]
                   ELSE [content |-> "/", mtime |-> 0, mode |-> 493]]
  /\ runs = 0 /\ mods = 0 /\ crashes = 0 /\ maint = MaxMaint

NextRestore == Restore

SpecRestore == InitRestore /\ [][NextRestore]_vars

\* ------------------------------------- a backup run by another process, during clean
\* While the clean of this process is under way another process runs a backup
\* of the source s1 to the same target.  Its steps are those of the run above,
\* taken a call at a time: createNewInstance with the SOURCE line, _backupFile
\* with put and the F line, finish with complete.
OtherFiles == << <<"s1", "a">>, <<"s1", "d", "b">> >>

\* the files of the source the other run has written an F line for
OtherDone ==
  { i \in 1..Len(OtherFiles) :
      \E j \in 1..Len(logs[Running]) :
        logs[Running][j].type = "F" /\ logs[Running][j].path = RelPath(OtherFiles[i]) }

\* LocalBackup.backup: createNewInstance, BackupSource.backupTo's SOURCE line
OtherCreate ==
  /\ proc = "clean"
  /\ runs > 0
  /\ Running \notin DOMAIN logs
  /\ runs' = runs - 1
  /\ clock' = clock + 1
  /\ logs' = Put(logs, Running, << HeaderLine, SourceLine(<<"s1">>) >>)
  /\ UNCHANGED << files, objects, fsdirs, fdOpen, fdPos, tasks, proc, pc, walkVars,
                  maintVars, outVars, inputVars, mods, crashes, maint >>

\* _backupFile: fs.stat, fs.hash, instance.put (the object is stored unless
\* its key exists) and the F line
OtherBackupFile ==
  /\ proc = "clean"
  /\ Running \in DOMAIN logs
  /\ OtherDone # 1..Len(OtherFiles)
  /\ LET i == CHOOSE k \in 1..Len(OtherFiles) :
                k \notin OtherDone /\ \A n \in 1..(k - 1) : n \in OtherDone
         fn == OtherFiles[i]
         size == ByteLength(files[fn].content)
         hash == Sha256(files[fn].content)
         key == GetKey(hash, size)
     IN  /\ IF StoreNeeded(key)
            THEN /\ objects' = Put(objects, key, Gzip(files[fn].content))
                 /\ fsdirs' = fsdirs \cup { <<key[1]>>, <<key[1], key[2]>> }
            ELSE UNCHANGED << objects, fsdirs >>
         /\ logs' = [logs EXCEPT ![Running] =
                       Append(@, EntryToString("F", Mode(fn), RelPath(fn), size, hash,
                                               files[fn].mtime))]
  /\ UNCHANGED << files, clock, fdOpen, fdPos, tasks, proc, pc, walkVars, maintVars,
                  outVars, inputVars, runs, mods, crashes, maint >>

\* BackupSet.backupTo: finish('OK ...'); BackupLog.complete: the log is renamed
\* to its timestamp and linked as .current
OtherComplete ==
  /\ proc = "clean"
  /\ Running \in DOMAIN logs
  /\ OtherDone = 1..Len(OtherFiles)
  /\ LET lines == Append(logs[Running], StatusLine)
         moved == Put(Drop(logs, Running), ParseWhen(clock), lines)
     IN  logs' = Put(moved, Current, lines)
  /\ UNCHANGED << files, clock, objects, fsdirs, fdOpen, fdPos, tasks, proc, pc,
                  walkVars, maintVars, outVars, inputVars, runs, mods, crashes, maint >>

OtherRun == OtherCreate \/ OtherBackupFile \/ OtherComplete

\* A target with objects that no log refers to (left by a cancelled run, or
\* orphaned since) and at most one finalised log; no run is under way.
InitRace ==
  /\ SourceTree /\ NoProcess /\ NoStreams
  /\ clock = 2
  /\ output = << >>
  /\ rootLogs = << >>
  /\ \E C \in SUBSET { "x", "y", "o" } :
       /\ objects = [p \in { GetKey(Sha256(c), 1) : c \in C } |-> Gzip(p[3][1][2])]
       /\ fsdirs = DirsOf(DOMAIN objects)
       /\ \E R \in SUBSET (C \cap { "x", "y" }), none \in BOOLEAN :
            logs = IF none THEN << >>
                   ELSE [w \in { When(1), Current } |-> LogOf(R)]
  /\ runs = 1 /\ mods = 0 /\ crashes = 0 /\ maint = MaxMaint

NextRace == Clean \/ OtherRun

SpecRace == InitRace /\ [][NextRace]_vars

\* ------------------------------------------------------ fs.zip and fs.unzip
\* A file is a sequence of bytes.  A gzip stream is a sequence of parts: the
\* header, one deflate block for every push, and the trailer.  Deno.iter
\* hands out the source in blocks of at most BufSize bytes and the object in
\* blocks of at most BufSize parts.
MaxLen == 4         \* bytes of a file that is stored and restored
BufSize == 2        \* bytes, or parts of a stream, in one block of Deno.iter

Bytes == { 0, 1 }

FilesUpTo(n) == UNION { [1..k -> Bytes] : k \in 0..n }

Min(a, b) == IF a <= b THEN a ELSE b

\* Deno.iter(reader, { bufSize }): the block that starts at position pos
NextBlock(data, pos) == SubSeq(data, pos + 1, Min(pos + BufSize, Len(data)))

Part(t, data, final) == [t |-> t, data |-> data, final |-> final]

\* faulty variant: a zipper that starts a new stream with every push
HeaderEveryPush(v, chunk, final) ==
  << Part("header", << >>, FALSE), Part("block", chunk, final) >>
    \o (IF final THEN << Part("trailer", << >>, TRUE) >> ELSE << >>)

\* fflate.Gzip.push(chunk, final): what the zipper hands to its callback, the
\* header before the first block and the trailer after the last
GzipPush(v, chunk, final) ==
  (IF v THEN << Part("header", << >>, FALSE) >> ELSE << >>)
    \o << Part("block", chunk, final) >>
    \o (IF final THEN << Part("trailer", << >>, TRUE) >> ELSE << >>)

\* fflate.Gunzip.push(chunk, final) with a header still to strip (v): nothing
\* happens while no part follows the header
GunzipWaits(v, p, final) == v /\ Len(p) <= 1 /\ ~final

\* ... the parts after the header
GunzipStrip(v, p) == IF v /\ p # << >> THEN Tail(p) ELSE p

\* ... on the final push the last 8 bytes must be the trailer
GunzipThrows(p) == p = << >> \/ p[Len(p)].t # "trailer"

\* Inflate: the blocks at the head of p, up to the block flagged final
RECURSIVE InflateLen(_)
InflateLen(p) ==
  IF p = << >> \/ p[1].t # "block" THEN 0
  ELSE IF p[1].final THEN 1
  ELSE 1 + InflateLen(Tail(p))

RECURSIVE Inflate(_)
Inflate(p) ==
  IF p = << >> \/ p[1].t # "block" THEN << >>
  ELSE IF p[1].final THEN p[1].data
  ELSE p[1].data \o Inflate(Tail(p))

\* zip: FsFile.open(from), FsFile.open(to, { write, create, truncate })
ZipOpen ==
  /\ zip.pc = "idle"
  /\ zip' = [zip EXCEPT !.pc = "zip", !.obj = << >>, !.pos = 0, !.v = TRUE]
  /\ UNCHANGED << targetVars, pipe, filter, conn, manifest, stream, siblings >>

\* pushToZipStream: stream.push(block) for one block of the source; the
\* zipper's callback writes the chunk to the object
ZipPush ==
  /\ zip.pc = "zip" /\ zip.pos < Len(zip.src)
  /\ LET block == NextBlock(zip.src, zip.pos)
     IN  zip' = [zip EXCEPT !.obj = @ \o GzipPush(zip.v, block, FALSE),
                            !.v = FALSE,
                            !.pos = @ + Len(block)]
  /\ UNCHANGED << targetVars, pipe, filter, conn, manifest, stream, siblings >>

\* pushToZipStream: stream.push(new Uint8Array(0), true); the callback writes
\* the last chunk, closes the object and resolves
ZipFinish ==
  /\ zip.pc = "zip" /\ zip.pos = Len(zip.src)
  /\ zip' = [zip EXCEPT !.obj = @ \o GzipPush(zip.v, << >>, TRUE),
                        !.v = FALSE,
                        !.pc = "stored"]
  /\ UNCHANGED << targetVars, pipe, filter, conn, manifest, stream, siblings >>

\* unzip: FsFile.open(from), FsFile.open(to, { write, create, truncate })
UnzipOpen ==
  /\ zip.pc = "stored"
  /\ zip' = [zip EXCEPT !.pc = "unzip", !.out = << >>, !.pos = 0, !.p = << >>,
                        !.v = TRUE]
  /\ UNCHANGED << targetVars, pipe, filter, conn, manifest, stream, siblings >>

\* pushToZipStream: unzipper.push(block) for one block of the object; ondata
\* writes what was inflated to the output file
UnzipPush ==
  /\ zip.pc = "unzip" /\ zip.pos < Len(zip.obj)
  /\ LET block == NextBlock(zip.obj, zip.pos)
         p == zip.p \o block
         q == GunzipStrip(zip.v, p)
     IN  IF GunzipWaits(zip.v, p, FALSE)
         THEN zip' = [zip EXCEPT !.p = p, !.pos = @ + Len(block)]
         ELSE zip' = [zip EXCEPT !.p = SubSeq(q, InflateLen(q) + 1, Len(q)),
                                 !.v = FALSE,
                                 !.out = @ \o Inflate(q),
                                 !.pos = @ + Len(block)]
  /\ UNCHANGED << targetVars, pipe, filter, conn, manifest, stream, siblings >>

\* pushToZipStream: unzipper.push(new Uint8Array(0), true); ondata with isLast
\* writes the rest, closes the output file and resolves
UnzipFinish ==
  /\ zip.pc = "unzip" /\ zip.pos = Len(zip.obj)
  /\ LET q == GunzipStrip(zip.v, zip.p)
     IN  IF GunzipThrows(q)
         THEN zip' = [zip EXCEPT !.pc = "failed"]
         ELSE zip' = [zip EXCEPT !.p = << >>,
                                 !.v = FALSE,
                                 !.out = @ \o Inflate(SubSeq(q, 1, Len(q) - 1)),
                                 !.pc = "restored"]
  /\ UNCHANGED << targetVars, pipe, filter, conn, manifest, stream, siblings >>

\* HashFileSystemV5.store of any file into an empty store, then restore
InitZip ==
  /\ SourceTree /\ EmptyTarget /\ NoProcess
  /\ clock = 0
  /\ runs = 0 /\ mods = 0 /\ crashes = 0 /\ maint = 0
  /\ \E f \in FilesUpTo(MaxLen) : zip = [NoZip EXCEPT !.src = f]
  /\ pipe = NoPipe
  /\ filter = NoFilter
  /\ conn = NoConn
  /\ manifest = NoManifest
  /\ stream = NoStream /\ siblings = NoSiblings

NextZip == ZipOpen \/ ZipPush \/ ZipFinish \/ UnzipOpen \/ UnzipPush \/ UnzipFinish

SpecZip == InitZip /\ [][NextZip]_vars

\* ------------------------------------------------------------ getUint8Pipe
\* The bytes written to a pipe are numbered 1, 2, ... in the order they are
\* written, so that a byte that is dropped, repeated or out of order shows.
MaxWrites == 3      \* chunks written to a pipe
MaxChunk == 2       \* bytes of one chunk
MaxReadBuf == 2     \* p.byteLength of a read

\* read: the result when the first block does not fit in what is left of p.
\* With nothing copied yet the buffer is filled from the block and the rest of
\* the block is put back; otherwise read returns what it has, and the block,
\* already taken off the queue, is not put back.
ReadTooBig(block, rest, n, data) ==
  IF data = << >>
  THEN [data |-> SubSeq(block, 1, n),
        chunks |-> << SubSeq(block, n + 1, Len(block)) >> \o rest]
  ELSE [data |-> data, chunks |-> rest]

\* read: `while (block.byteLength <= p.byteLength - offset) { ... }`
RECURSIVE ReadFill(_, _, _, _)
ReadFill(block, rest, n, data) ==
  IF Len(block) <= n - Len(data)
  THEN IF rest = << >> THEN [data |-> data \o block, chunks |-> << >>]
       ELSE ReadFill(Head(rest), Tail(rest), n, data \o block)
  ELSE ReadTooBig(block, rest, n, data)

\* read: `while (chunk && chunk.chunk.byteLength == 0) chunk = chunks.shift()`
RECURSIVE NonZeroLength(_)
NonZeroLength(chunks) ==
  IF chunks # << >> /\ Head(chunks) = << >> THEN NonZeroLength(Tail(chunks))
  ELSE chunks

\* writeSync(chunk, isLast)
WriteSync(n, isLast) ==
  /\ ~pipe.isLast
  /\ Len(pipe.chunks) + pipe.taken < MaxWrites
  /\ LET chunk == [i \in 1..n |-> Len(pipe.bytesIn) + i]
     IN  pipe' = [pipe EXCEPT !.chunks = Append(@, chunk),
                              !.bytesIn = @ \o chunk,
                              !.eof = isLast,
                              !.isLast = isLast]
  /\ UNCHANGED << targetVars, zip, filter, conn, manifest, stream, siblings >>

\* read(p) with p.byteLength = n, from the end of its wait for data or eof
Read(n) ==
  /\ pipe.chunks # << >> \/ pipe.eof
  /\ LET q == NonZeroLength(pipe.chunks)
     IN  IF q = << >>
         THEN pipe' = [pipe EXCEPT !.chunks = << >>,
                                   !.taken = @ + Len(pipe.chunks),
                                   !.ret = "null"]
         ELSE LET r == ReadFill(Head(q), Tail(q), n, << >>)
              IN  pipe' = [pipe EXCEPT !.chunks = r.chunks,
                                       !.taken = @ + Len(pipe.chunks) - Len(r.chunks),
                                       !.bytesOut = @ \o r.data,
                                       !.ret = "data"]
  /\ UNCHANGED << targetVars, zip, filter, conn, manifest, stream, siblings >>

InitPipe ==
  /\ SourceTree /\ EmptyTarget /\ NoProcess
  /\ clock = 0
  /\ runs = 0 /\ mods = 0 /\ crashes = 0 /\ maint = 0
  /\ zip = NoZip
  /\ pipe = NoPipe
  /\ filter = NoFilter
  /\ conn = NoConn
  /\ manifest = NoManifest
  /\ stream = NoStream /\ siblings = NoSiblings

NextPipe ==
  \/ \E n \in 0..MaxChunk, isLast \in BOOLEAN : WriteSync(n, isLast)
  \/ \E n \in 1..MaxReadBuf : Read(n)

SpecPipe == InitPipe /\ [][NextPipe]_vars

\* ------------------------------------------------------------------ Filter
\* One Filter made of a pattern list, and one call of ignores on a path.
MaxPatterns == 2    \* patterns of a filter

Globs ==
  { <<"*">>, <<"a", ".", "b">>, <<"*", "*", "/", "a">>,
    <<"d", "/", "*">> }

Patterns == { <<type>> \o g : type \in { "+", "-" }, g \in Globs }

PatternLists == UNION { [1..n -> Patterns] : n \in 0..MaxPatterns }

Paths ==
  { <<"a", ".", "b">>, <<"a">>, <<"d", "/", "a">>,
    <<"d", "/", "a", ".", "b">>, <<"c", "/", "c">>, <<"c", "/", "d", "/", "a">> }

\* new Filter({ filters }): this._init(filters)
FilterInit ==
  /\ filter.pc = "new"
  /\ filter' = [filter EXCEPT !.filters = Re(filter.patterns), !.pc = "ready"]
  /\ UNCHANGED << targetVars, zip, pipe, conn, manifest, stream, siblings >>

\* ignores(str): `let ignored = null`
Ignores ==
  /\ filter.pc = "ready"
  /\ filter' = [filter EXCEPT !.i = 0, !.ignored = 0, !.pc = "loop"]
  /\ UNCHANGED << targetVars, zip, pipe, conn, manifest, stream, siblings >>

\* ignores: one turn of `for (const filter of this.filters)`
IgnoresNext ==
  /\ filter.pc = "loop" /\ filter.i < Len(filter.filters)
  /\ filter' = [filter EXCEPT
                  !.i = @ + 1,
                  !.ignored = IgnoresStep(@, filter.i + 1, filter.filters[filter.i + 1],
                                          filter.str)]
  /\ UNCHANGED << targetVars, zip, pipe, conn, manifest, stream, siblings >>

\* ignores: `return ignored`
IgnoresReturn ==
  /\ filter.pc = "loop" /\ filter.i = Len(filter.filters)
  /\ filter' = [filter EXCEPT !.pc = "returned"]
  /\ UNCHANGED << targetVars, zip, pipe, conn, manifest, stream, siblings >>

InitFilter ==
  /\ SourceTree /\ EmptyTarget /\ NoProcess
  /\ clock = 0
  /\ runs = 0 /\ mods = 0 /\ crashes = 0 /\ maint = 0
  /\ zip = NoZip
  /\ pipe = NoPipe
  /\ \E patterns \in PatternLists, str \in Paths :
       filter = [NoFilter EXCEPT !.patterns = patterns, !.str = str]
  /\ conn = NoConn
  /\ manifest = NoManifest
  /\ stream = NoStream /\ siblings = NoSiblings

NextFilter == FilterInit \/ Ignores \/ IgnoresNext \/ IgnoresReturn

SpecFilter == InitFilter /\ [][NextFilter]_vars

\* ------------------------------------------------------ LocalBackup.connect
\* One LocalBackup is constructed for a destination and connected.  The
\* destination's config.json holds an fstype, or is not there.
FsTypes == { "hash-v5", "hash-v4", "hash-v3" }

\* the constructor's this.config = { version: VERSION, fstype: 'hash-v5' }
DefaultFsType == "hash-v5"

\* setLocation's switch: the fstypes it has a case for
Supported(fstype) == fstype = "hash-v5"

\* connect: `this.fstype && this.config.fstype != this.fstype`
FsTypeMismatch(config, fstype) == fstype # "" /\ config # fstype

\* new LocalBackup({ destination, fstype })
ConnNew ==
  /\ conn.pc = "new"
  /\ conn' = [conn EXCEPT !.config = DefaultFsType,
                          !.pc = IF conn.create THEN "create" ELSE "load"]
  /\ UNCHANGED << targetVars, streamVars >>

\* connect(true): the directories are made; without a config.json initConfig
\* is started and not awaited
ConnCreate ==
  /\ conn.pc = "create"
  /\ conn' = [conn EXCEPT !.saving = conn.disk = "none", !.pc = "load"]
  /\ UNCHANGED << targetVars, streamVars >>

\* saveConfig: fs.writeFile(this.configFile, JSON.stringify(this.config))
ConnSaveConfig ==
  /\ conn.saving
  /\ conn' = [conn EXCEPT !.saving = FALSE, !.disk = conn.config]
  /\ UNCHANGED << targetVars, streamVars >>

\* connect: `if (!this.config) { await this.loadConfig(); ... }`; a
\* config.json that is not there makes readFile throw
ConnLoad ==
  /\ conn.pc = "load"
  /\ conn' =
       IF conn.config # "null" THEN [conn EXCEPT !.pc = "check"]
       ELSE IF conn.disk = "none" THEN [conn EXCEPT !.pc = "failed"]
       ELSE [conn EXCEPT !.config = conn.disk, !.pc = "check"]
  /\ UNCHANGED << targetVars, streamVars >>

\* connect: the comparison of this.config.fstype with the requested fstype
ConnCheck ==
  /\ conn.pc = "check"
  /\ conn' = [conn EXCEPT !.pc = IF FsTypeMismatch(conn.config, conn.fstype)
                                 THEN "failed" ELSE "locate"]
  /\ UNCHANGED << targetVars, streamVars >>

\* connect: this.filesystem.setLocation(this.filesDb, this.config.fstype)
ConnSetLocation ==
  /\ conn.pc = "locate"
  /\ conn' = IF Supported(conn.config)
             THEN [conn EXCEPT !.location = "files.db", !.pc = "connected"]
             ELSE [conn EXCEPT !.pc = "failed"]
  /\ UNCHANGED << targetVars, streamVars >>

InitConnect ==
  /\ SourceTree /\ EmptyTarget /\ NoProcess
  /\ clock = 0
  /\ runs = 0 /\ mods = 0 /\ crashes = 0 /\ maint = 0
  /\ zip = NoZip /\ pipe = NoPipe /\ filter = NoFilter /\ manifest = NoManifest
  /\ stream = NoStream /\ siblings = NoSiblings
  /\ \E create \in BOOLEAN, fstype \in FsTypes \cup { "" }, disk \in FsTypes \cup { "none" } :
       conn = [NoConn EXCEPT !.pc = "new", !.create = create, !.fstype = fstype,
                             !.disk = disk]

NextConnect ==
  ConnNew \/ ConnCreate \/ ConnSaveConfig \/ ConnLoad \/ ConnCheck \/ ConnSetLocation

SpecConnect == InitConnect /\ [][NextConnect]_vars

\* ------------------------------------------- one manifest line, there and back
\* create, writeSourceEntry, writeEntry, finish: the line is appended
ManifestWrite ==
  /\ manifest.pc = "new"
  /\ manifest' =
       [manifest EXCEPT
          !.line = IF manifest.kind = "header" THEN HeaderText
                   ELSE IF manifest.kind = "source" THEN SourceText(<< "s", " ", "1" >>)
                   ELSE IF manifest.kind = "status" THEN StatusText
                   ELSE IF manifest.kind = "finish" THEN FinishText
                   ELSE IF manifest.kind = "unknown" THEN manifest.e.rest
                   ELSE EntryToStringText(manifest.e).line,
          !.pc = "written"]
  /\ UNCHANGED << targetVars, zip, pipe, filter, conn, stream, siblings >>

\* getLinesFromLog: BackupLog.parse(line)
ManifestParse ==
  /\ manifest.pc = "written"
  /\ manifest' = IF ParseThrows(manifest.line)
                  THEN [manifest EXCEPT !.pc = "raised"]
                  ELSE [manifest EXCEPT !.parsed = ParseText(manifest.line), !.pc = "parsed"]
  /\ UNCHANGED << targetVars, zip, pipe, filter, conn, stream, siblings >>

\* BackupLog.entryToString of the parsed record
ManifestToString ==
  /\ manifest.pc = "parsed"
  /\ manifest' = [manifest EXCEPT !.threw = EntryToStringText(manifest.parsed).threw,
                                  !.again = EntryToStringText(manifest.parsed).line,
                                  !.pc = "done"]
  /\ UNCHANGED << targetVars, zip, pipe, filter, conn, stream, siblings >>

InitManifest ==
  /\ SourceTree /\ EmptyTarget /\ NoProcess
  /\ clock = 0
  /\ runs = 0 /\ mods = 0 /\ crashes = 0 /\ maint = 0
  /\ zip = NoZip /\ pipe = NoPipe /\ filter = NoFilter /\ conn = NoConn
  /\ stream = NoStream /\ siblings = NoSiblings
  /\ \E w \in Written : manifest = [NoManifest EXCEPT !.pc = "new", !.kind = w.kind, !.e = w.e]

NextManifest == ManifestWrite \/ ManifestParse \/ ManifestToString

SpecManifest == InitManifest /\ [][NextManifest]_vars

\* ------------------------------------------------- zip2stream and its pipe
MaxBlocks == 7      \* blocks Deno.iter reads from the file
MaxEmit == 2        \* chunks the zipper hands to its callback in one push

\* handleBackPressure: `while (chunks.length >= 10)`
HighWater == 10

\* faulty variant: handleBackPressure never waits
NeverFull(queued) == FALSE

\* handleBackPressure sleeps while this holds
Full(queued) == queued >= HighWater

\* faulty variant: the reader is never handed to the caller
NeverFirst(blocks) == FALSE

\* the zipper's callback: `if (++blocks == 1) resolve(upipe.reader)`, for
\* the callback that finds `blocks` calls before it
First(blocks) == blocks = 0

\* the caller has the reader after a push with k calls of the callback
Resolved(resolved, blocks, k) == resolved \/ \E n \in 0..(k - 1) : First(blocks + n)

\* zip2stream: hFrom = await FsFile.open(from, { read: true })
StreamOpen ==
  /\ stream.pc = "new"
  /\ stream' = [stream EXCEPT !.pc = "iter"]
  /\ UNCHANGED << targetVars, zip, pipe, filter, conn, manifest, siblings >>

\* `for await (const block of Deno.iter(hFrom.reader()))`: the next block, or
\* the end of the file
StreamIter ==
  /\ stream.pc = "iter"
  /\ stream' = IF stream.left > 0
               THEN [stream EXCEPT !.left = @ - 1, !.pc = "pressure"]
               ELSE [stream EXCEPT !.pc = "final"]
  /\ UNCHANGED << targetVars, zip, pipe, filter, conn, manifest, siblings >>

\* await upipe.handleBackPressure(): it returns once the queue is not full
StreamPressure ==
  /\ stream.pc = "pressure"
  /\ ~Full(stream.queued)
  /\ stream' = [stream EXCEPT !.pc = "push"]
  /\ UNCHANGED << targetVars, zip, pipe, filter, conn, manifest, siblings >>

\* zipper.push(block): the callback is called k times, each a
\* writeSync(chunk, false), the first of all handing the reader over
StreamPush ==
  /\ stream.pc = "push"
  /\ \E k \in 0..MaxEmit :
       stream' = [stream EXCEPT !.queued = @ + k,
                                !.eof = IF k > 0 THEN FALSE ELSE @,
                                !.blocks = @ + k,
                                !.resolved = Resolved(@, stream.blocks, k),
                                !.pc = "iter"]
  /\ UNCHANGED << targetVars, zip, pipe, filter, conn, manifest, siblings >>

\* zipper.push(new Uint8Array(0), true): the last call of the callback is a
\* writeSync(chunk, true); hFrom.close()
StreamFinal ==
  /\ stream.pc = "final"
  /\ \E k \in 1..MaxEmit :
       stream' = [stream EXCEPT !.queued = @ + k,
                                !.eof = TRUE,
                                !.blocks = @ + k,
                                !.resolved = Resolved(@, stream.blocks, k),
                                !.pc = "done"]
  /\ UNCHANGED << targetVars, zip, pipe, filter, conn, manifest, siblings >>

\* the caller, having the reader, calls read(p); it goes on reading until a
\* read has returned null
StreamRead ==
  /\ stream.resolved /\ ~stream.reading /\ stream.ret # "null"
  /\ stream' = [stream EXCEPT !.reading = TRUE]
  /\ UNCHANGED << targetVars, zip, pipe, filter, conn, manifest, siblings >>

\* read(p): it sleeps while the queue is empty and eof is not set; then it
\* returns null from an empty queue and else the chunks that fit in p.  (Of
\* the reads that a chunk larger than p takes, this is the one that takes the
\* chunk off the queue.)
StreamReadReturn ==
  /\ stream.reading
  /\ stream.queued > 0 \/ stream.eof
  /\ IF stream.queued = 0
     THEN stream' = [stream EXCEPT !.reading = FALSE, !.ret = "null"]
     ELSE \E n \in 1..stream.queued :
            stream' = [stream EXCEPT !.queued = @ - n, !.reading = FALSE, !.ret = "data"]
  /\ UNCHANGED << targetVars, zip, pipe, filter, conn, manifest, siblings >>

InitStream ==
  /\ SourceTree /\ EmptyTarget /\ NoProcess
  /\ clock = 0
  /\ runs = 0 /\ mods = 0 /\ crashes = 0 /\ maint = 0
  /\ zip = NoZip /\ pipe = NoPipe /\ filter = NoFilter /\ conn = NoConn
  /\ manifest = NoManifest /\ siblings = NoSiblings
  /\ \E n \in 0..MaxBlocks : stream = [NoStream EXCEPT !.pc = "new", !.left = n]

Producer == StreamOpen \/ StreamIter \/ StreamPressure \/ StreamPush \/ StreamFinal

Consumer == StreamRead \/ StreamReadReturn

NextStream == Producer \/ Consumer

SpecStream == InitStream /\ [][NextStream]_vars

\* The event loop is fair to the producer and to a caller that keeps reading:
\* a timer that has expired, a promise that is resolved and a block that has
\* been read are handled in the end.
SpecStreamFair ==
  /\ SpecStream
  /\ WF_vars(StreamOpen) /\ WF_vars(StreamIter) /\ WF_vars(StreamPressure)
  /\ WF_vars(StreamPush) /\ WF_vars(StreamFinal)
  /\ WF_vars(StreamRead) /\ WF_vars(StreamReadReturn)

\* ================================================================ properties
\* the F records of a log, parsed
FRecords(lines) ==
  { Parse(lines[i]) : i \in { j \in 1..Len(lines) : lines[j].type = "F" } }

\* C1: every F record of every finalised (timestamp-named) manifest has an
\* object present in files.db at the key (hash, size) of the record, after any
\* sequence of backup, clean, fsck, verify and restore operations.
C1_FinalisedRecordsHaveObjects ==
  \A w \in Finalised : \A e \in FRecords(logs[w]) : Exists(GetKey(e.hash, e.size))

\* a clean that removed something has run on a target with finalised F records
C1_Witness ==
  /\ outcome.op = "clean" /\ outcome.reported /\ outcome.cleaned > 0
  /\ \E w \in Finalised : FRecords(logs[w]) # {}

\* the object at `key` is whole and is the compressed form of the content
\* that hashes to `hash`
Intact(key, hash) == Exists(key) /\ HashZipOk(key, hash)

\* C2: when a backup process was cancelled at some step and a later backup of
\* the set ran to completion, every F record of the finalised manifest has an
\* object that exists and decompresses to content that hashes to the record's
\* hash.  (No source file is modified, so that only the cancellation is at work.)
C2_SafeAfterCancelledRun ==
  (crashes < MaxCrashes /\ mods = MaxMods) =>
    \A w \in Finalised : \A e \in FRecords(logs[w]) : Intact(GetKey(e.hash, e.size), e.hash)

\* C3: in every state every object of files.db decompresses to content whose
\* SHA-256 is the hash of its file name, also when source files are modified
\* while a run is in progress.  (The object that a put is writing at the
\* moment is not counted, and no process is cancelled.)
C3_ObjectsMatchTheirNames ==
  crashes = MaxCrashes =>
    \A p \in DOMAIN objects :
      \/ proc = "backup" /\ pc = "store_write" /\ p = GetKey(cur.hash, cur.size)
      \/ HashZipOk(p, p[Len(p)][1])

\* C4: put returns {stored: true} whenever it returns, and a put for a key
\* whose object exists leaves the whole store unchanged: it creates, rewrites
\* and truncates nothing.
C4_PutIdempotent ==
  /\ [](pc = "file_log" => cur.stored)
  /\ [][(proc = "backup" /\ pc = "put" /\ Exists(GetKey(cur.hash, cur.size)) /\ pc' # "put")
          => /\ objects' = objects /\ fsdirs' = fsdirs
             /\ (pc' = "file_log" /\ cur'.stored) \/ proc' = "none"]_vars

\* put has returned for a key that an earlier put of the same run had stored
C4_Witness ==
  /\ proc = "backup" /\ pc = "file_log" /\ cur.stored
  /\ \E e \in FRecords(logs[Running]) :
       e.hash = cur.hash /\ e.size = cur.size /\ e.path # RelPath(cur.fn)

\* the key of the object at path p is referenced by an F record of a log other
\* than .running
Referenced(p) ==
  \/ \E w \in DOMAIN logs \ {Running} :
       \E e \in FRecords(logs[w]) : KeyName(e.hash, e.size) = p[Len(p)]
  \/ \E w \in DOMAIN rootLogs \ {Running} :
       \E e \in FRecords(rootLogs[w]) : KeyName(e.hash, e.size) = p[Len(p)]

\* C5: an object that exists is not modified by any step, except that the put
\* which opened it writes it; it is removed only by clean and only when no F
\* record of a manifest other than .running has its key at that moment.
C5_ObjectsImmutable ==
  [][\A p \in DOMAIN objects :
       \/ p \in DOMAIN objects' /\ objects'[p] = objects[p]
       \/ /\ proc = "backup" /\ pc = "store_write" /\ p = GetKey(cur.hash, cur.size)
          /\ objects[p] = Truncated /\ p \in DOMAIN objects'
       \/ proc = "clean" /\ p \notin DOMAIN objects' /\ ~Referenced(p)]_vars

\* clean has removed an unreferenced object and has kept a referenced one
C5_Witness ==
  /\ outcome.op = "clean" /\ outcome.reported /\ outcome.cleaned > 0
  /\ \E p \in DOMAIN objects : Referenced(p)

\* C6: when clean has returned, every object anywhere under files.db has a key
\* that is in an F record of a finalised manifest.
C6_NoOrphanAfterClean ==
  (proc = "clean" /\ pc = "returned") =>
    \A p \in DOMAIN objects :
      \E w \in Finalised : \E e \in FRecords(logs[w]) : KeyName(e.hash, e.size) = p[Len(p)]

\* clean has returned after removing orphans at three different depths, and
\* has kept both referenced objects
C6_Witness ==
  /\ proc = "clean" /\ pc = "returned"
  /\ cleaned = 3
  /\ Cardinality(DOMAIN objects) = 2

\* C7: when fsck or clean is invoked while a <setname>.running log exists, in
\* backups/ or in a userid directory, it fails with an error, deletes no
\* object and prints no totals.
C7_RefusedWhileRunning ==
  [][(/\ proc \in {"clean", "fsck"} /\ pc = "hashes"
      /\ (Running \in DOMAIN logs \/ Running \in DOMAIN rootLogs))
       => /\ proc' = "none"
          /\ outcome'.error /\ ~outcome'.reported
          /\ objects' = objects /\ fsdirs' = fsdirs]_vars

\* clean was refused for a .running log directly in backups/, with an orphan
\* in the store
C7_Witness ==
  /\ outcome.op = "clean" /\ outcome.error
  /\ Running \in DOMAIN rootLogs /\ Running \notin DOMAIN logs
  /\ \E p \in DOMAIN objects : p[Len(p)] = OrphanKey

\* C8: in every state of a set with a finalised log, also between the steps of
\* complete, <setname>.current exists and has the content of the finalised log
\* with the largest <when>.
C8_CurrentIsNewest ==
  Finalised # {} => (Current \in DOMAIN logs /\ logs[Current] = logs[LastWhen])

IsPrefix(s, t) == Len(s) <= Len(t) /\ SubSeq(t, 1, Len(s)) = s

\* C9: within a run every step leaves the log's previous content as a prefix
\* of its content: no record is overwritten, reordered or removed, also with
\* two appends in flight at once.
C9_AppendOnly ==
  [][(proc = "backup" /\ proc' = "backup" /\ Running \in DOMAIN logs
        /\ Running \in DOMAIN logs')
       => IsPrefix(logs[Running], logs'[Running])]_vars

\* two appends have both done their seek and neither has written
C9_Witness ==
  \E t1, t2 \in tasks : t1 # t2 /\ t1.phase = "write" /\ t2.phase = "write"

\* C10: in the log of a run every D and F record comes after the SOURCE record
\* of its source, under every interleaving of the log writes.
C10_SourceBeforeEntries ==
  \A w \in DOMAIN logs :
    \A i \in 1..Len(logs[w]) :
      logs[w][i].type \in {"D", "F"} => \E j \in 1..(i - 1) : logs[w][j].type = "SOURCE"

\* C11: every finalised manifest starts with the header record and has exactly
\* one STATUS record, which is its last record: no SOURCE, D or F record is
\* written after the STATUS record.
C11_StatusIsLast ==
  \A w \in Finalised :
    /\ Len(logs[w]) >= 2
    /\ logs[w][1].type = "HEADER"
    /\ logs[w][Len(logs[w])].type = "STATUS"
    /\ \A i \in 1..(Len(logs[w]) - 1) : logs[w][i].type # "STATUS"

\* C12: the totals fsck prints satisfy total = verified + orphaned + damaged
\* and missing <= the number of keys in the live set, for every combination of
\* objects on disk and F records in finalised manifests.
C12_FsckTotals ==
  [][(proc = "fsck" /\ pc = "hashes" /\ outcome'.reported)
       => /\ outcome'.total = outcome'.verified + outcome'.orphaned + outcome'.damaged
          /\ outcome'.total = Cardinality(DOMAIN objects)
          /\ outcome'.missing <= Cardinality(GetAllActiveHashes)]_vars

\* fsck has printed totals in which every class occurs
C12_Witness ==
  /\ outcome.op = "fsck" /\ outcome.reported
  /\ outcome.verified > 0 /\ outcome.orphaned > 0
  /\ outcome.damaged > 0 /\ outcome.missing > 0

\* the live-set keys that have no object on disk at their path in files.db
NoObjectOnDisk(live) == { k \in live : ~Exists(GetKey(k[1], k[2])) }

\* C13: fsck classifies each live-set key exclusively: a referenced object
\* that is on disk but does not decompress to content with its hash is counted
\* as damaged and not as missing; missing counts exactly the live-set keys
\* that have no object on disk.
C13_MissingIsExactlyAbsent ==
  [][(proc = "fsck" /\ pc = "hashes" /\ outcome'.reported)
       => outcome'.missing = Cardinality(NoObjectOnDisk(GetAllActiveHashes))]_vars

\* C14: stats.backedUp.files is incremented for a file only when put newly
\* stored its object (the file was compressed into files.db by this put); so
\* a second backup of an unchanged source tree, whose objects all exist,
\* leaves backedUp.files at 0.
C14_BackedUpOnlyWhenStored ==
  [][(proc = "backup" /\ proc' = "backup" /\ stats'.backedUp > stats.backedUp)
       => "store" \in cur.reads]_vars

\* the F record of the file in hand, with the given hash, has been handed to
\* the log
FRecordWritten(hash) ==
  LET line == EntryToString("F", Mode(cur.fn), RelPath(cur.fn), cur.size, hash, cur.mtime)
  IN  \/ \E t \in tasks : t.line = line
      \/ \E i \in 1..Len(logs[Running]) : logs[Running][i] = line

\* the file in hand has an entry in last_backup and its stat matches the entry
\* exactly, size and mtime, and check_hash is unset
StatMatchesLast ==
  /\ proc = "backup" /\ pc = "file_logged"
  /\ cur.fn \in DOMAIN lastBackup.F
  /\ cur.size = lastBackup.F[cur.fn].size
  /\ cur.mtime = lastBackup.F[cur.fn].mtime
  /\ ~checkHash

\* C15 as stated: whenever last_backup has an entry e for the file's path and
\* the file's stat matches e exactly (size and mtime), with check_hash unset,
\* the walker writes an F record with hash = e.hash and does not open the
\* source file, neither for hashing nor for storing.
C15_SkipOnExactMatch ==
  StatMatchesLast =>
    /\ cur.hash = lastBackup.F[cur.fn].hash
    /\ FRecordWritten(lastBackup.F[cur.fn].hash)
    /\ cur.reads = {}

\* C15 amended: the same, for a file whose mtime is not later than the time
\* of the last backup.
C15_SkipOnExactMatchNotLater ==
  (StatMatchesLast /\ cur.mtime <= lastBackup.time) =>
    /\ cur.hash = lastBackup.F[cur.fn].hash
    /\ FRecordWritten(lastBackup.F[cur.fn].hash)
    /\ cur.reads = {}

\* the F record of an unchanged file has been written from the last backup's
\* entry, in a run whose source tree has a file modified since the last run
C15_Witness ==
  /\ StatMatchesLast /\ cur.mtime <= lastBackup.time
  /\ cur.modified = "-"
  /\ \E f \in DOMAIN files : files[f].mtime > lastBackup.time

\* C16: the walker reuses a hash of the previous manifest only if last_backup
\* has the file, the file's mtime is not later than last_backup.time, size and
\* mtime both equal the prior entry, and check_hash is unset; in every other
\* case the file is hashed, the hash is the SHA-256 of the content the file has
\* at that moment, and that hash is the one written in the F record.
C16_ReuseOnlyWhenUnchanged ==
  /\ [](proc = "backup" /\ pc = "file_logged" =>
          /\ FRecordWritten(cur.hash)
          /\ "hash" \notin cur.reads =>
               /\ cur.fn \in DOMAIN lastBackup.F
               /\ cur.mtime <= lastBackup.time
               /\ cur.size = lastBackup.F[cur.fn].size
               /\ cur.mtime = lastBackup.F[cur.fn].mtime
               /\ ~checkHash
               /\ cur.hash = lastBackup.F[cur.fn].hash)
  /\ [][(proc = "backup" /\ proc' = "backup" /\ "hash" \notin cur.reads
           /\ "hash" \in cur'.reads)
          => cur'.hash = Sha256(files[cur.fn].content)]_vars
  /\ [][(proc = "backup" /\ proc' = "backup" /\ cur'.fn = cur.fn /\ cur.hash # NoHash)
          => cur'.hash = cur.hash]_vars

\* in one run a changed file has been hashed again and the F record of an
\* unchanged file has been written with the hash of the previous manifest
C16_Witness ==
  /\ proc = "backup" /\ pc = "file_logged"
  /\ cur.modified = "-" /\ "hash" \notin cur.reads
  /\ \E i \in 1..Len(logs[Running]) :
       /\ logs[Running][i].type = "F"
       /\ logs[Running][i].hash # lastBackup.F[<<"s1">> \o logs[Running][i].path].hash

\* C17: for any file f, storing it and restoring the resulting object gives an
\* output file byte-equal to f, same length and same bytes in the same order,
\* for every content including the empty file; the restore does not fail.
C17_RoundTrip ==
  /\ zip.pc # "failed"
  /\ zip.pc = "restored" => zip.out = zip.src

\* a file of more bytes than one block has been stored and restored
C17_Witness == zip.pc = "restored" /\ Len(zip.src) > BufSize /\ Len(zip.obj) > BufSize

\* C18: for any sequence of writes, the last one flagged isLast, interleaved
\* with reads of any buffer sizes, the bytes that read has returned are at any
\* moment the first of the bytes written, in the same order, and once the last
\* chunk is written and the queue is empty they are all the bytes written: no
\* chunk is dropped, duplicated or reordered, also when a chunk does not fit
\* in the remaining space of a read buffer.
C18_BytesOutEqualBytesIn ==
  /\ IsPrefix(pipe.bytesOut, pipe.bytesIn)
  /\ (pipe.isLast /\ pipe.chunks = << >>) => pipe.bytesOut = pipe.bytesIn

\* C19: read returns the end-marker (null) only after a push with isLast, and
\* only when no written byte waits in the queue; this holds when chunks are
\* empty.
C19_EndMarkerOnlyAtEnd ==
  pipe.ret = "null" =>
    /\ pipe.isLast
    /\ \A i \in 1..Len(pipe.chunks) : pipe.chunks[i] = << >>

\* the pattern matches the path: one of the items _init makes of it does
Matches(pattern, str) ==
  \E i \in 1..Len(Re(<< pattern >>)) : Test(Re(<< pattern >>)[i].re, str)

\* the place in the list of the last pattern that matches, 0 when none does
LastMatch(patterns, str) ==
  LET matching == { i \in 1..Len(patterns) : Matches(patterns[i], str) }
  IN  IF matching = {} THEN 0
      ELSE CHOOSE i \in matching : \A j \in matching : j <= i

\* C20: for any ordered pattern list and any path p, ignores(p) is truthy iff
\* at least one pattern matches p and the last matching pattern in list order
\* has type '-'; it is null when no pattern matches or the last matching one
\* has type '+'.
C20_LastMatchWins ==
  filter.pc = "returned" =>
    LET last == LastMatch(filter.patterns, filter.str)
    IN  (filter.ignored # 0) <=> (last # 0 /\ filter.patterns[last][1] = "-")

\* with the patterns -* and +a.b, ignores("a.b") has returned null
C20_Witness ==
  /\ filter.pc = "returned"
  /\ filter.patterns = << <<"-", "*">>, <<"+", "a", ".", "b">> >>
  /\ filter.str = <<"a", ".", "b">>
  /\ filter.ignored = 0

\* the pattern **/a of the given type
StarStarSlashA(type) == << type, "*", "*", "/", "a" >>

\* the path a at the root and below one and two directories
PathsToA == { <<"a">>, <<"d", "/", "a">>, <<"c", "/", "d", "/", "a">> }

\* C21: with the single pattern -**/a, ignores is truthy for a at the root and
\* for a below one or more directories; and in any list the pattern counts at
\* its own place: when no later pattern matches such a path, ignores is truthy
\* exactly when the **/a pattern has type '-', whatever stands before it.
C21_StarStarSlashExpansion ==
  filter.pc = "returned" =>
    /\ (filter.patterns = << StarStarSlashA("-") >> /\ filter.str \in PathsToA)
         => filter.ignored # 0
    /\ \A i \in 1..Len(filter.patterns) :
         ( /\ filter.patterns[i] \in { StarStarSlashA("+"), StarStarSlashA("-") }
           /\ filter.str \in PathsToA
           /\ \A j \in (i + 1)..Len(filter.patterns) :
                ~Matches(filter.patterns[j], filter.str) )
           => ((filter.ignored # 0) <=> (filter.patterns[i][1] = "-"))

\* with the patterns +* and -**/a, ignores("a") has returned the second
\* pattern's item for the bare name
C21_Witness ==
  /\ filter.pc = "returned"
  /\ filter.patterns = << <<"+", "*">>, StarStarSlashA("-") >>
  /\ filter.str = <<"a">>
  /\ filter.ignored = 2

\* the files of the source being walked and its directories below the root
WalkFiles == { f \in FilePaths : f[1] = sources[1] }

WalkDirs == UNION { { SubSeq(f, 1, n) : n \in 2..(Len(f) - 1) } : f \in WalkFiles }

\* the filter's verdict on an absolute path of the source
Verdict(p) == FilterIgnores(srcFilters, PathChars(RelPath(p))) # 0

Parent(p) == SubSeq(p, 1, Len(p) - 1)

\* The directories and files the claim gives a record: without deepscan those
\* with no ignored directory on the way from the root, with deepscan every
\* directory that is not ignored and every file of such a directory that is
\* not ignored.
RECURSIVE RecordedDir(_)
RecordedDir(d) ==
  \/ Len(d) = 1
  \/ ~Verdict(d) /\ (deepscan \/ RecordedDir(Parent(d)))

RecordedFile(f) == ~Verdict(f) /\ RecordedDir(Parent(f))

\* the log has a record of the type for the absolute path
HasRecord(lines, type, p) ==
  \E i \in 1..Len(lines) : lines[i].type = type /\ lines[i].path = RelPath(p)

\* C22: a directory the filter ignores gets no D record and its files get no F
\* record.  Without deepscan nothing beneath it gets a record either; with
\* deepscan every directory beneath it that is not ignored gets its D record
\* and the files in it that are not ignored get their F records.  With
\* -**/skip, +**/skip/keep the file skip/keep/x has an F record only with
\* deepscan.
C22_Deepscan ==
  /\ \A w \in DOMAIN logs : \A i \in 1..Len(logs[w]) :
       LET p == << sources[1] >> \o logs[w][i].path
       IN  /\ logs[w][i].type = "D" => RecordedDir(p)
           /\ logs[w][i].type = "F" => RecordedFile(p)
  /\ \A w \in Finalised :
       /\ \A d \in WalkDirs : RecordedDir(d) => HasRecord(logs[w], "D", d)
       /\ \A f \in WalkFiles : RecordedFile(f) => HasRecord(logs[w], "F", f)
       /\ srcFilters = << SkipPattern, KeepPattern >>
            => (HasRecord(logs[w], "F", << "s3", "skip", "keep", "x" >>) <=> deepscan)

\* a run with deepscan under -**/skip, +**/skip/keep is finalised: x below
\* skip/keep has its F record, skip and skip/f have none
C22_Witness ==
  /\ deepscan
  /\ srcFilters = << SkipPattern, KeepPattern >>
  /\ \E w \in Finalised :
       /\ HasRecord(logs[w], "F", << "s3", "skip", "keep", "x" >>)
       /\ HasRecord(logs[w], "D", << "s3", "skip", "keep" >>)
       /\ ~HasRecord(logs[w], "D", << "s3", "skip" >>)
       /\ ~HasRecord(logs[w], "F", << "s3", "skip", "f" >>)

\* the local file an F line of verify's log is compared with
CompareFile(lines, i) == RootAt(lines, i) \o lines[i].path

\* C23: verify with compare prints OK for an F record only when the object is
\* sound and the local file's content is the object's decompressed content; a
\* file whose content differs from the object is never printed OK.
C23_CompareNeverOkOnChange ==
  [][(proc = "verify" /\ todo.compare /\ outcome'.reported)
       => \A i \in 1..Len(todo.lines) :
            (todo.lines[i].type = "F" /\ outcome'.report[i] = "OK")
              => /\ VerifyOk(todo.lines[i].size, todo.lines[i].hash)
                 /\ Gunzip(objects[GetKey(todo.lines[i].hash, todo.lines[i].size)])
                      = files[CompareFile(todo.lines, i)].content]_vars

\* the file restore put, or left, at the path of an F line has the line's
\* content, mode and mtime
Replayed(out, entry) ==
  /\ entry.path \in DOMAIN out
  /\ Sha256(out[entry.path].content) = entry.hash
  /\ ByteLength(out[entry.path].content) = entry.size
  /\ out[entry.path].mode = ParseInt8(entry.mode)
  /\ out[entry.path].mtime = entry.mtime

\* restore ends, by returning or by throwing
RestoreEnds == proc = "restore" /\ outcome.op = "none" /\ outcome'.op = "restore"

\* C24: when restore of a finalised manifest into an output directory ends,
\* it has not failed, every F record has its file at output/path with the
\* backed-up content and the recorded mode and mtime, and every D record has
\* its directory.
C24_RestoreReplaysFiles ==
  [][(RestoreEnds /\ IsTimestamp(todo.when))
       => /\ ~outcome'.error
          /\ \A i \in 1..Len(logs[todo.when]) :
               LET entry == Parse(logs[todo.when][i])
               IN  /\ entry.type = "F" => Replayed(output', entry)
                   /\ entry.type = "D" =>
                        /\ entry.path \in DOMAIN output'
                        /\ output'[entry.path].content = "/"]_vars

\* C25: when restore meets an F record whose file is there with the recorded
\* size and hash, the content stays and after the step the file's mode and
\* mtime are the recorded ones, whatever they were.
C25_MetadataReplayedWhenNotChanged ==
  [][(proc = "restore" /\ pc = "lines" /\ todo.lines # << >> /\ todo.root # << >>
        /\ Head(todo.lines).type = "F" /\ NotChanged(Head(todo.lines))
        /\ proc' = "restore")
       => /\ output'[Head(todo.lines).path].content
               = output[Head(todo.lines).path].content
          /\ Replayed(output', Head(todo.lines))]_vars

\* C26: a manifest that lies directly in backups/, written without a userid,
\* is read by fsck and clean like any other: unless a backup is running,
\* getAllActiveHashes does not throw and the operation does not end in an
\* error.
C26_UseridOptional ==
  [][(proc \in { "fsck", "clean" } /\ pc = "hashes" /\ ~BackupIsRunning)
       => ~outcome'.error]_vars

\* C27: connect(false) does not succeed unless the fstype in the target's
\* config.json is the requested one and is supported, and then the object
\* store points at files.db; with another fstype in config.json, or with no
\* config.json, it ends in an error.
C27_ConnectVerifiesFsType ==
  (~conn.create /\ conn.fstype # "" /\ conn.pc \in { "connected", "failed" }) =>
    /\ conn.pc = "connected" =>
         /\ conn.disk = conn.fstype
         /\ Supported(conn.disk)
         /\ conn.location = "files.db"
    /\ conn.disk # conn.fstype => conn.pc = "failed"


\* ------------------------------------------------------------------ C28
\* an operation of _backupFile has failed in this run
SomeFailed(ops) ==
  /\ proc = "backup" /\ stats.skipped > 0
  /\ \E f \in FilePaths : \E op \in ops : Fails(f, op)

\* the STATUS terminator is in some log of the target
StatusWritten == \E w \in DOMAIN logs : \E i \in 1..Len(logs[w]) : logs[w][i] = StatusLine

\* C28: once put or the write of the manifest entry has failed for a file, the
\* run writes no STATUS OK terminator and its log stays backups/<set>.running;
\* every failure of an operation on a file adds exactly one to stats.skipped.
C28_PutOrLogFailureAborts ==
  /\ stats.skipped <= Cardinality(faults)
  /\ SomeFailed({ "put", "log" }) => (~StatusWritten /\ DOMAIN logs \subseteq { Running })


\* ------------------------------------------------------------------ C29
\* the operation under way is past its preparation and works through the
\* objects or the F records
Scanning ==
  \/ proc = "clean" /\ pc = "scan"
  \/ proc = "fsck" /\ pc = "hashes" /\ ~HashesThrow
  \/ /\ proc = "verify" /\ pc = "lines"
     /\ \A i \in 1..Len(todo.lines) : todo.lines[i].type = "F" => ~NoRoot(todo.lines, i)

\* C29: verify, fsck and clean are not halted by a failure on one object
\* (missing, corrupt, or one whose removal or whose directory's removal
\* fails): a scan that has begun ends only with its totals printed.
C29_ScanNotHalted ==
  [][(Scanning /\ proc' = "none") => (outcome'.reported /\ ~outcome'.error)]_vars


\* ------------------------------------------------------------------ C30
\* the text entryToString gives a mode and a time
ModeText(v) == IF v.kind = "number" THEN OctChars(v.n) ELSE v.s

TimeText(v) == IF v.kind = "date" THEN ToISOString(v.n) ELSE v.s

\* Two entries have the same type, uid, gid, mode, ctime, mtime, size, hash
\* and path: a number and its digits, a Date and its ISO string, and a path
\* with either separator count as the same.
SameEntry(a, b) ==
  /\ a.type = b.type
  /\ Template(a.uid) = Template(b.uid)
  /\ Template(a.gid) = Template(b.gid)
  /\ ModeText(a.mode) = ModeText(b.mode)
  /\ TimeText(a.ctime) = TimeText(b.ctime)
  /\ TimeText(a.mtime) = TimeText(b.mtime)
  /\ a.size.n = b.size.n
  /\ a.hash = b.hash
  /\ ReplaceBackslash(a.path) = ReplaceBackslash(b.path)

SizeZeroed(e) == [e EXCEPT !.size = IF e.type = "D" THEN Num(0) ELSE @]

\* the line with the words of the size column replaced by 0
WithSizeZero(line) ==
  LET words == SplitOn(line, " ")
  IN  JoinWords([i \in 1..Len(words) |-> IF i = 6 THEN << "0" >> ELSE words[i]])

StatSize(line) == ByteLength(files[<<"s1">> \o line.path].content)

\* C31: for a file of any size, 2^31 bytes and more included, the size in its
\* F record, the size parse returns for the record and the size in the key of
\* the live set are the size in the key put stored the object under; fsck
\* reports no object orphaned or missing and clean deletes none.
C31_SizeIsTheKeySize ==
  /\ \A w \in DOMAIN logs : \A i \in 1..Len(logs[w]) :
       logs[w][i].type = "F" =>
         /\ logs[w][i].size = StatSize(logs[w][i])
         /\ Parse(logs[w][i]).size = StatSize(logs[w][i])
         /\ KeyName(Parse(logs[w][i]).hash, Parse(logs[w][i]).size)
              = GetKey(logs[w][i].hash, StatSize(logs[w][i]))[3]
  /\ (outcome.op = "fsck" /\ outcome.reported) =>
       (outcome.orphaned = 0 /\ outcome.missing = 0)
  /\ (outcome.op = "clean" /\ outcome.reported) => outcome.cleaned = 0


\* ------------------------------------------------------------------ C32
\* C32: whatever the interleaving of a clean with a backup run on the same
\* target, clean deletes no object while a .running log exists, and no
\* finalised log has an F record whose object has been swept.
C32_NoSweepDuringRun ==
  [][/\ Running \in DOMAIN logs => DOMAIN objects \subseteq DOMAIN objects'
     /\ \A w \in DOMAIN logs' : IsTimestamp(w) =>
          \A r \in FRecords(logs'[w]) : Exists(GetKey(r.hash, r.size))']_vars


\* ------------------------------------------------------------------ C33
\* a directory below files.db that holds nothing
EmptyDirs == { d \in fsdirs : d # << >> /\ ScanDirs(d) = {} /\ ScanFiles(d) = {} }

\* C33: when clean has ended, whatever the order the removals it started ran
\* in, no empty directory is left on the path of a deleted object, files.db
\* is still there and every directory that holds an object is still there.
\* (Before clean no directory below files.db is empty.)
C33_EmptyParentsPruned ==
  (outcome.op = "clean" /\ proc = "none") =>
    /\ EmptyDirs = {}
    /\ << >> \in fsdirs
    /\ \A p \in DOMAIN objects : \A n \in 0..(Len(p) - 1) : SubSeq(p, 1, n) \in fsdirs


\* ------------------------------------------------------------------ C34
\* C34: with handleBackPressure before each push, the queue of the pipe never
\* holds more chunks than the high-water mark of 10, however many chunks the
\* zipper emits per block and with the final push included.
C34_QueueWithinHighWater == stream.queued <= HighWater

\* C34, amended: the queue is bounded, by the 9 chunks handleBackPressure lets
\* a push find, the chunks of that push and the chunks of the final push,
\* which no handleBackPressure precedes.
C34_QueueBounded == stream.queued <= HighWater - 1 + 2 * MaxEmit

\* the final push has left more than 10 chunks in the queue
C34_Witness == stream.pc = "done" /\ stream.eof /\ stream.queued > HighWater


\* ------------------------------------------------------------------ C39
\* C39: under a fair event loop zip2stream hands the reader to its caller, a
\* producer that waits in handleBackPressure goes on in the end while the
\* caller keeps reading, and once the final chunk is pushed every read
\* returns in the end, the last one with the end marker (null).
C39_NoDeadlock ==
  /\ <>stream.resolved
  /\ (stream.pc = "pressure") ~> (stream.pc = "push")
  /\ stream.reading ~> ~stream.reading
  /\ <>[](stream.pc = "done" /\ stream.ret = "null" /\ ~stream.reading /\ stream.queued = 0)

\* the producer has waited on a full queue, and the end marker has been read
C39_Witness ==
  /\ stream.pc = "done" /\ stream.ret = "null" /\ stream.blocks > HighWater

\* ---------------------------------------------------------------------------
\* getLastBackup among the logs of several sets
\* ---------------------------------------------------------------------------

\* The sets that share backups/<userid>/, and the times their runs may carry;
\* a time stands for a <when> such as 20240101T000000000Z, all of one length.
SetNames == { << "a" >>, << "a", ".", "b" >>, << "b" >> }

Whens == { << "1" >>, << "2" >> }

RunningText == << "r", "u", "n", "n", "i", "n", "g" >>

CurrentText == << "c", "u", "r", "r", "e", "n", "t" >>

\* the UTF-16 code unit of a character, which is what `>` compares
CharCode(c) ==
  CASE c = "." -> 46 [] c = "1" -> 49 [] c = "2" -> 50
    [] c = "a" -> 97 [] c = "b" -> 98 [] c = "c" -> 99 [] c = "e" -> 101
    [] c = "g" -> 103 [] c = "i" -> 105 [] c = "n" -> 110 [] c = "r" -> 114
    [] c = "t" -> 116 [] c = "u" -> 117

\* s > t on strings
RECURSIVE Greater(_, _)
Greater(s, t) ==
  IF s = << >> THEN FALSE
  ELSE IF t = << >> THEN TRUE
  ELSE IF s[1] = t[1] THEN Greater(Tail(s), Tail(t))
  ELSE CharCode(s[1]) > CharCode(t[1])

\* `${this.setname}.`
Prefix(setname) == setname \o << "." >>

StartsWith(s, p) == Len(s) >= Len(p) /\ SubSeq(s, 1, Len(p)) = p

Substr(s, n) == SubSeq(s, n + 1, Len(s))

\* BackupLog.parseWhen on a string
ParseWhenText(when) ==
  IF when \in { RunningText, CurrentText } THEN when
  ELSE SelectSeq(when, LAMBDA c : c \notin { "-", ":", "." })

\* BackupLog.getLogName, below backups/<userid>/
GetLogName(setname, when) == setname \o << "." >> \o when

\* the loop of getLastBackup over the directory: `dir` are the names still to
\* be looked at, in any order
RECURSIVE ScanDir(_, _, _)
ScanDir(dir, prefix, last) ==
  IF dir = {} THEN last
  ELSE LET name == CHOOSE n \in dir : TRUE
           ts == Substr(name, Len(prefix))
           next == IF /\ name[1] # "."
                      /\ StartsWith(name, prefix)
                      /\ ts \notin { RunningText, CurrentText }
                      /\ (last = << >> \/ Greater(ts, last))
                   THEN ts ELSE last
       IN ScanDir(dir \ {name}, prefix, next)

\* a run of set s creates its log: BackupLog.create('running'); no
\* getLastBackup is under way, and what the last one returned is forgotten
SiblingCreate ==
  \E s \in SetNames :
    /\ siblings.pc # "scanned"
    /\ GetLogName(s, RunningText) \notin DOMAIN siblings.names
    /\ siblings' = [siblings EXCEPT
         !.pc = "idle",
         !.names = Put(@, GetLogName(s, RunningText), [set |-> s, when |-> RunningText])]
    /\ UNCHANGED << targetVars, zip, pipe, filter, conn, manifest, stream >>

\* the run completes at time w: <setname>.running becomes <setname>.<when>
\* and is copied to <setname>.current
SiblingComplete ==
  \E s \in SetNames, w \in Whens :
    /\ siblings.pc # "scanned"
    /\ GetLogName(s, RunningText) \in DOMAIN siblings.names
    /\ GetLogName(s, w) \notin DOMAIN siblings.names
    /\ siblings' = [siblings EXCEPT
         !.pc = "idle",
         !.names = Put(Put(Drop(@, GetLogName(s, RunningText)),
                           GetLogName(s, w), [set |-> s, when |-> w]),
                       GetLogName(s, CurrentText), [set |-> s, when |-> CurrentText])]
    /\ UNCHANGED << targetVars, zip, pipe, filter, conn, manifest, stream >>

\* getLastBackup of set s, up to the end of its loop
GetLastBackupScan ==
  \E s \in SetNames :
    /\ siblings.pc # "scanned"
    /\ siblings' = [siblings EXCEPT
         !.setname = s, !.pc = "scanned",
         !.lastBackup = ScanDir(DOMAIN siblings.names, Prefix(s), << >>),
         !.ret = "none", !.read = << >>]
    /\ UNCHANGED << targetVars, zip, pipe, filter, conn, manifest, stream >>

\* the rest of it: nothing is returned when no name was taken; else the log
\* getLogName(parseWhen(lastBackup)) is read, which fails when there is no
\* such file
GetLastBackupRead ==
  /\ siblings.pc = "scanned"
  /\ LET name == GetLogName(siblings.setname, ParseWhenText(siblings.lastBackup))
     IN siblings' = [siblings EXCEPT
          !.pc = "returned",
          !.ret = IF siblings.lastBackup = << >> THEN "nothing"
                  ELSE IF name \in DOMAIN siblings.names THEN "info" ELSE "error",
          !.read = IF siblings.lastBackup = << >> THEN << >> ELSE name]
  /\ UNCHANGED << targetVars, zip, pipe, filter, conn, manifest, stream >>

InitSiblings ==
  /\ SourceTree /\ EmptyTarget /\ NoProcess
  /\ clock = 0
  /\ runs = 0 /\ mods = 0 /\ crashes = 0 /\ maint = 0
  /\ zip = NoZip /\ pipe = NoPipe /\ filter = NoFilter /\ conn = NoConn
  /\ manifest = NoManifest /\ stream = NoStream
  /\ siblings = NoSiblings

NextSiblings == SiblingCreate \/ SiblingComplete \/ GetLastBackupScan \/ GetLastBackupRead

SpecSiblings == InitSiblings /\ [][NextSiblings]_vars

\* the finalised logs of the set getLastBackup was called for
OwnFinalised ==
  { n \in DOMAIN siblings.names :
      siblings.names[n].set = siblings.setname /\ siblings.names[n].when \in Whens }

\* C35: when getLastBackup of set S has returned, it has returned nothing if S
\* has no finalised log, and else the content of the finalised log of S with
\* the largest <when>: the file it read is a log of S, not of another set
\* (such as a.b for S = a), not S.running and not S.current.
C35_LastBackupOfTheSet ==
  siblings.pc = "returned" =>
    IF OwnFinalised = {} THEN siblings.ret = "nothing"
    ELSE /\ siblings.ret = "info"
         /\ siblings.read \in OwnFinalised
         /\ \A n \in OwnFinalised :
              ~Greater(siblings.names[n].when, siblings.names[siblings.read].when)

\* C36: parse raises on no line: a line whose first word is unknown gives an
\* UNKNOWN record that holds the line, and every line the writer can write is
\* parsed without an exception, the STATUS line of finish() with its default
\* status among them.
C36_ParseNeverRaises ==
  /\ manifest.pc # "raised"
  /\ (manifest.pc \in { "parsed", "done" } /\ manifest.kind = "unknown") =>
       (manifest.parsed.type = "UNKNOWN" /\ manifest.parsed.rest = manifest.line)

\* the log holds one header at most, and nothing before it
HeaderOnce(lines) ==
  /\ Cardinality({ i \in 1..Len(lines) : lines[i] = HeaderLine }) <= 1
  /\ lines # << >> => lines[1] = HeaderLine

\* C37: a run that starts where a cancelled run left <setname>.running starts
\* from an empty log: in every state every log holds one header at most, as its
\* first line, so no record of an abandoned run lies before the header of the
\* next one; and when a run completes no .running log remains and
\* getAllActiveHashes, with which fsck and clean start, does not refuse.
C37_FreshLogAfterCancel ==
  [][/\ \A w \in DOMAIN logs' : HeaderOnce(logs'[w])
     /\ (proc = "none" /\ proc' = "backup") => logs'[Running] = << >>
     /\ (proc = "backup" /\ pc = "complete_link" /\ proc' = "none") =>
          (Running \notin DOMAIN logs' /\ ~HashesThrow')]_vars

\* two runs were started and nothing else, one of them was cancelled and left
\* the .running log, the other has completed: there is one finalised log, it
\* has one header, F records and the status, and no .running log
C37_Witness ==
  /\ proc = "none" /\ maint = MaxMaint
  /\ runs = MaxRuns - 2 /\ crashes = MaxCrashes - 1
  /\ Cardinality(Finalised) = 1 /\ Running \notin DOMAIN logs
  /\ Current \in DOMAIN logs
  /\ HeaderOnce(logs[LastWhen])
  /\ FRecords(logs[LastWhen]) # {}
  /\ logs[LastWhen][Len(logs[LastWhen])] = StatusLine

\* the files below the source of the run
SourceFiles == { f \in FilePaths : f[1] = sources[1] }

\* C38: in a manifest that has its STATUS OK line every file of the source on
\* which no operation fails has an F record: a failure of stat, hash, put or
\* the log write on one file omits that file only, not its siblings and not
\* the directories that follow; the number of files without a record is
\* stats.skipped.
C38_OnlyTheFailedFileOmitted ==
  \A w \in DOMAIN logs :
    (\E i \in 1..Len(logs[w]) : logs[w][i] = StatusLine) =>
      /\ \A f \in SourceFiles :
           (\A op \in FileOps : ~Fails(f, op)) => HasRecord(logs[w], "F", f)
      /\ proc = "backup" =>
           Cardinality({ f \in SourceFiles : ~HasRecord(logs[w], "F", f) }) = stats.skipped

====
